---- MODULE Spec2Model ----
(***************************************************************************)
(* syncthing_TUI: the state synchronization and projection engine.         *)
(* The bubbletea runtime runs every tea.Cmd concurrently (cmds), delivers  *)
(* each result as a message (msgs) and hands the messages one at a time to *)
(* model.Update, which mutates the projection and issues further commands. *)
(***************************************************************************)
EXTENDS Integers, Sequences, FiniteSets, Bags, TLC

\* ------------------------------ bounds ---------------------------------
MaxEvents == 2      \* events the daemon emits after the client has started
MaxSamples == 2     \* samples of the connection totals the daemon serves
MaxBatch == 2       \* events in one batch of the long poll
MaxUserCmds == 2    \* requests of the user in flight or answered and not handled

\* -------------------------- program constants --------------------------
RETRY_DELAY == 1                 \* wait(time.Second, ...), in seconds
REFETCH_STATUS_INTERVAL == 10    \* in seconds

\* ------------------------------ universe -------------------------------
MyID     == "d0"
NoErr    == "nil"
ErrTransport == "transport error"
ErrUnmarshal == "unmarshal error"

\* syncthing.FolderStatus (the zero value is the cleared status)
EmptyFolderStatus == [State |-> "", NeedTotalItems |-> 0, Invalid |-> "",
                      Error |-> "", ReceiveOnlyTotalItems |-> 0]
\* syncthing.FolderScanProgressEventData (zero value)
EmptyScanProgress == [Folder |-> "", Current |-> 0, Total |-> 0]
\* syncthing.FolderStats (zero value)
EmptyFolderStats  == [LastScan |-> 0]

\* two configurations the daemon can hold
CfgA == [Folders |-> << [ID |-> "f1", Label |-> "one", Paused |-> FALSE,
                        Type |-> "sendreceive", Devices |-> << "d0", "d1" >>] >>,
         Devices |-> << [DeviceID |-> "d0", Name |-> "self"],
                        [DeviceID |-> "d1", Name |-> "peer"] >>,
         Options |-> [MaxSendKbps |-> 0, MaxRecvKbps |-> 0]]
CfgB == [Folders |-> << [ID |-> "f2", Label |-> "two", Paused |-> FALSE,
                        Type |-> "sendreceive", Devices |-> << "d0" >>],
                        [ID |-> "f1", Label |-> "one", Paused |-> TRUE,
                        Type |-> "sendreceive", Devices |-> << "d0", "d1" >>] >>,
         Devices |-> << [DeviceID |-> "d0", Name |-> "self"],
                        [DeviceID |-> "d1", Name |-> "peer"] >>,
         Options |-> [MaxSendKbps |-> 100, MaxRecvKbps |-> 0]]
\* syncthing.Config (zero value)
NoConfig == [Folders |-> << >>, Devices |-> << >>,
             Options |-> [MaxSendKbps |-> 0, MaxRecvKbps |-> 0]]

\* syncthing.SystemVersion (zero value)
NoVersion == [Version |-> ""]
\* a Go map with no entries
EmptyMap == [k \in {} |-> 0]

\* syncthing.Total, syncthing.SystemConnection, syncthing.StatusCompletion
\* (zero values)
NoTotal        == [At |-> 0, InBytesTotal |-> 0, OutBytesTotal |-> 0]
NoConnections  == [Connections |-> EmptyMap, Total |-> NoTotal]
ZeroCompletion == [Completion |-> 0, GlobalBytes |-> 0, GlobalItems |-> 0,
                   NeedBytes |-> 0, NeedDeletes |-> 0, NeedItems |-> 0,
                   RemoteState |-> "", Sequence |-> 0]

\* ------------------------------ helpers --------------------------------
Last(s) == s[Len(s)]

RECURSIVE SeqToSet(_)
SeqToSet(s) == IF s = << >> THEN {} ELSE {Head(s)} \cup SeqToSet(Tail(s))

RECURSIVE BagOfSeq(_)
BagOfSeq(s) == IF s = << >> THEN EmptyBag
               ELSE SetToBag({Head(s)}) (+) BagOfSeq(Tail(s))

\* index of the first element of s satisfying Test, 0 when there is none
FirstIndex(s, Test(_)) ==
  IF \E i \in DOMAIN s : Test(s[i])
  THEN CHOOSE i \in DOMAIN s : Test(s[i]) /\ \A j \in 1..(i-1) : ~Test(s[j])
  ELSE 0

RECURSIVE Flatten(_)
Flatten(ss) == IF ss = << >> THEN << >> ELSE Head(ss) \o Flatten(Tail(ss))

\* ------------------------------- state ---------------------------------
VARIABLES
  log,               \* daemon: the event log, IDs 1..Len(log)
  dconfig,           \* daemon: the configuration it holds
  cmds,              \* bag of tea.Cmd issued and not yet finished
  msgs,              \* bag of tea.Msg produced and not yet given to Update
  initSeq,           \* position in the tea.Sequence returned by Init
  err,               \* model.err
  thisDeviceStatus,  \* model.thisDeviceStatus
  folders,           \* model.folders
  devices,           \* model.devices
  pendingDevices,    \* model.pendingDevices
  putConfig,         \* model.putConfig (the config closed over)
  applied,           \* history: the batches the Update loop has iterated, each
                     \* with the cursor of its request and the IDs iterated
  firstTip,          \* history: the cursor learned from the first response (0: none yet)
  version,           \* model.version
  panicked,          \* the process has died in a panic
  httpData,          \* model.httpData: the API key the requests carry
  ongoingUserAction, \* model.ongoingUserAction
  addDeviceModal,    \* model.addDeviceModal: shown or not, and for which device
  call               \* the last pure operation applied: its name, arguments, result

daemon     == << log, dconfig >>
projection == << thisDeviceStatus, folders, devices, pendingDevices, putConfig >>
vars == << log, dconfig, cmds, msgs, initSeq, err, thisDeviceStatus, folders,
           devices, pendingDevices, putConfig, applied, firstTip,
           version, panicked, httpData, ongoingUserAction, addDeviceModal, call >>
history == << applied, firstTip >>
\* what neither Init's sequence nor the event loop writes
\* what the clicks of the user write
user    == << ongoingUserAction, addDeviceModal >>
others  == << version, panicked, httpData, user, call >>

\* ------------------------------ commands -------------------------------
\* A tea.Cmd in flight: the function it runs, its arguments, and the delay
\* still to elapse before the function runs (tea.Tick), 0 when it is running.
Cmd(name) == [cmd |-> name, since |-> 0, folder |-> "", device |-> "",
              prev |-> NoConnections, wait |-> 0]

fetchEvents(since)       == [Cmd("fetchEvents") EXCEPT !.since = since]
fetchSystemStatus        == Cmd("fetchSystemStatus")
fetchConfig              == Cmd("fetchConfig")
fetchSystemConnections(prevConnections) ==
  [Cmd("fetchSystemConnections") EXCEPT !.prev = prevConnections]
fetchSystemVersion       == Cmd("fetchSystemVersion")
fetchDeviceStats         == Cmd("fetchDeviceStats")
fetchFolderStats         == Cmd("fetchFolderStats")
fetchPendingDevices      == Cmd("fetchPendingDevices")
currentTimeCmd           == [Cmd("currentTimeCmd") EXCEPT !.wait = 1]
fetchFolderStatus(f)     == [Cmd("fetchFolderStatus") EXCEPT !.folder = f]
fetchCompletion(d, f)    == [Cmd("fetchCompletion") EXCEPT !.device = d, !.folder = f]

wait(waitTime, command)  == [command EXCEPT !.wait = waitTime]

\* ------------------------------ messages -------------------------------
FetchedEventsMsg(events, since, e) ==
  [type |-> "FetchedEventsMsg", events |-> events, since |-> since, err |-> e]
FetchedSystemStatusMsg(status, e) ==
  [type |-> "FetchedSystemStatusMsg", status |-> status, err |-> e]
FetchedConfig(config, e) ==
  [type |-> "FetchedConfig", config |-> config, err |-> e]
FetchedSystemVersionMsg(v, e) ==
  [type |-> "FetchedSystemVersionMsg", version |-> v, err |-> e]
FetchedSystemConnectionsMsg(prevConnections, connections, e) ==
  [type |-> "FetchedSystemConnectionsMsg", prevConnections |-> prevConnections,
   connections |-> connections, err |-> e]
FetchedFolderStatus(folderStatus, id, e) ==
  [type |-> "FetchedFolderStatus", folderStatus |-> folderStatus, id |-> id, err |-> e]
FetchedFolderStats(folderStats, e) ==
  [type |-> "FetchedFolderStats", folderStats |-> folderStats, err |-> e]
FetchedDeviceStats(deviceStats, e) ==
  [type |-> "FetchedDeviceStats", deviceStats |-> deviceStats, err |-> e]
FetchedCompletion(deviceID, folderID, completion, hasCompletion, e) ==
  [type |-> "FetchedCompletion", deviceID |-> deviceID, folderID |-> folderID,
   completion |-> completion, hasCompletion |-> hasCompletion, err |-> e]
FetchedPendingDevices(e, ds) ==
  [type |-> "FetchedPendingDevices", err |-> e, devices |-> ds]

\* --------------------------- event decoder -----------------------------
\* the type tags fetchEvents has a variant for
KnownTypes == {"FolderSummary", "ConfigSaved", "FolderScanProgress",
               "StateChanged", "FolderCompletion", "PendingDevicesChanged"}

\* A raw event is [ID, Time, Type, Data] with Data a json.RawMessage: the
\* value it encodes and whether it has the shape its type tag promises.
Raw(val, wellFormed) == [val |-> val, wellFormed |-> wellFormed]

\* json.Unmarshal(e.Data, &data) into the struct of one event variant
Unmarshal(raw, variant) ==
  [ok |-> raw.wellFormed, data |-> [variant |-> variant, val |-> raw.val]]

Typed(e, data) ==
  [ID |-> e.ID, Time |-> e.Time, Type |-> e.Type, Data |-> data]

\* mutant of parseUnknown: an unknown type tag is a decoding error
parseUnknownStrict(e, err0) == [out |-> << >>, err |-> ErrUnmarshal]

\* the default branch of the decoding loop: the event passes through with
\* its raw payload
parseUnknown(e, err0) ==
  [out |-> << Typed(e, [variant |-> "RawMessage", val |-> e.Data]) >>, err |-> err0]

\* one iteration of the decoding loop of fetchEvents:
\* the event appended to parsedEvents (if any) and the error left in err
parseEvent(e, err0) ==
  CASE e.Type = "FolderSummary" ->
         LET u == Unmarshal(e.Data, "FolderSummaryEventData") IN
         IF ~u.ok THEN [out |-> << >>, err |-> err0]
         ELSE [out |-> << Typed(e, u.data) >>, err |-> err0]
    [] e.Type = "ConfigSaved" ->
         LET u == Unmarshal(e.Data, "Config") IN
         IF ~u.ok THEN [out |-> << >>, err |-> err0]
         ELSE [out |-> << Typed(e, u.data) >>, err |-> err0]
    [] e.Type = "FolderScanProgress" ->
         LET u == Unmarshal(e.Data, "FolderScanProgressEventData") IN
         IF ~u.ok THEN [out |-> << >>, err |-> err0]
         ELSE [out |-> << Typed(e, u.data) >>, err |-> err0]
    [] e.Type = "StateChanged" ->
         LET u == Unmarshal(e.Data, "StateChangedEventData") IN
         IF ~u.ok THEN [out |-> << >>, err |-> err0]
         ELSE [out |-> << Typed(e, u.data) >>, err |-> err0]
    [] e.Type = "FolderCompletion" ->
         LET u == Unmarshal(e.Data, "FolderCompletionEventData") IN
         IF ~u.ok THEN [out |-> << >>, err |-> ErrUnmarshal]
         ELSE [out |-> << Typed(e, u.data) >>, err |-> err0]
    [] e.Type = "PendingDevicesChanged" ->
         LET u == Unmarshal(e.Data, "PendingDevicesChangedEventData") IN
         IF ~u.ok THEN [out |-> << >>, err |-> ErrUnmarshal]
         ELSE [out |-> << Typed(e, u.data) >>, err |-> err0]
    [] OTHER -> parseUnknown(e, err0)

RECURSIVE parseEvents(_, _, _)
parseEvents(events, parsedEvents, err0) ==
  IF events = << >> THEN [events |-> parsedEvents, err |-> err0]
  ELSE LET r == parseEvent(Head(events), err0)
       IN parseEvents(Tail(events), parsedEvents \o r.out, r.err)

\* GET /rest/events?since=N: the daemon returns every event with ID > N
EventsSince(since) == SubSeq(log, since + 1, Len(log))

\* --------------------------- projection store --------------------------
EmptyDeviceStats == [LastSeen |-> 0]
EmptyConnection  == [Connected |-> FALSE, InBytesTotal |-> 0, OutBytesTotal |-> 0, At |-> 0]

NewFolderViewModel(folderConfig, sharedDevices) ==
  [Config |-> folderConfig, Status |-> EmptyFolderStatus,
   ExtraStats |-> EmptyFolderStats, ScanProgress |-> EmptyScanProgress,
   SharedDevices |-> sharedDevices]

\* a folder of the list whose status has been stored
NewFolderViewModelWith(folderConfig, status) ==
  [NewFolderViewModel(folderConfig, << >>) EXCEPT !.Status = status]

NewDeviceViewModel(deviceConfig, deviceFolders) ==
  [Config |-> deviceConfig, ExtraStats |-> EmptyDeviceStats,
   Connection |-> << FALSE, EmptyConnection >>,
   StatusCompletion |-> EmptyMap, Folders |-> deviceFolders,
   InGoingBytesPerSecond |-> 0, OutGoingBytesPerSecond |-> 0]

createPutConfig(config) == config

sharedDevicesOf(config, folderConfig, thisDeviceID) ==
  LET kept == SelectSeq(folderConfig.Devices,
                LAMBDA d : d # thisDeviceID
                           /\ \E i \in DOMAIN config.Devices :
                                 config.Devices[i].DeviceID = d)
  IN [i \in DOMAIN kept |->
        config.Devices[FirstIndex(config.Devices,
                                  LAMBDA c : c.DeviceID = kept[i])].Name]

\* mutant of updateFolderViewModelConfigs: folders the config no longer has
\* stay in the list
updateFolderViewModelConfigsKeeping(config, current, thisDeviceID) ==
  [i \in DOMAIN config.Folders |->
     NewFolderViewModel(config.Folders[i],
                        sharedDevicesOf(config, config.Folders[i], thisDeviceID))]
  \o SelectSeq(current,
               LAMBDA fvm : \A i \in DOMAIN config.Folders :
                               config.Folders[i].ID # fvm.Config.ID)

updateFolderViewModelConfigs(config, current, thisDeviceID) ==
  [i \in DOMAIN config.Folders |->
     LET folderConfig  == config.Folders[i]
         k             == FirstIndex(current, LAMBDA fvm : folderConfig.ID = fvm.Config.ID)
         sharedDevices == sharedDevicesOf(config, folderConfig, thisDeviceID)
     IN IF k # 0
        THEN [current[k] EXCEPT !.Config = folderConfig, !.SharedDevices = sharedDevices]
        ELSE NewFolderViewModel(folderConfig, sharedDevices)]

deviceFoldersOf(config, deviceConfig) ==
  LET kept == SelectSeq(config.Folders,
                LAMBDA folderConfig :
                  \E j \in DOMAIN folderConfig.Devices :
                     folderConfig.Devices[j] = deviceConfig.DeviceID)
  IN [i \in DOMAIN kept |-> << kept[i].ID, kept[i].Label >>]

\* mutant of updateDeviceViewModelConfigs: every device starts afresh
updateDeviceViewModelConfigsFresh(config, current, thisDeviceID) ==
  LET kept == SelectSeq(config.Devices,
                LAMBDA deviceConfig : thisDeviceID # deviceConfig.DeviceID)
  IN [i \in DOMAIN kept |->
        NewDeviceViewModel(kept[i], deviceFoldersOf(config, kept[i]))]

updateDeviceViewModelConfigs(config, current, thisDeviceID) ==
  LET kept == SelectSeq(config.Devices,
                LAMBDA deviceConfig : thisDeviceID # deviceConfig.DeviceID)
  IN [i \in DOMAIN kept |->
        LET deviceConfig == kept[i]
            k == FirstIndex(current, LAMBDA dvm : deviceConfig.DeviceID = dvm.Config.DeviceID)
            fs == deviceFoldersOf(config, deviceConfig)
        IN IF k # 0
           THEN [current[k] EXCEPT !.Config = deviceConfig, !.Folders = fs]
           ELSE NewDeviceViewModel(deviceConfig, fs)]

\* mutant of updateFolderStatus: a status equal to the stored one clears it
updateFolderStatusToggling(fs, id, status) ==
  [i \in DOMAIN fs |->
     IF fs[i].Config.ID = id
     THEN [fs[i] EXCEPT !.Status = IF @ = status THEN EmptyFolderStatus ELSE status]
     ELSE fs[i]]

\* mutant of updateFolderStatus: a folder that has a status keeps it
updateFolderStatusOnce(fs, id, status) ==
  [i \in DOMAIN fs |->
     IF fs[i].Config.ID = id /\ fs[i].Status = EmptyFolderStatus
     THEN [fs[i] EXCEPT !.Status = status]
     ELSE fs[i]]

updateFolderStatus(fs, id, status) ==
  [i \in DOMAIN fs |->
     IF fs[i].Config.ID = id THEN [fs[i] EXCEPT !.Status = status] ELSE fs[i]]

updateFolderScan(fs, scanProgress) ==
  [i \in DOMAIN fs |->
     IF fs[i].Config.ID = scanProgress.Folder
     THEN [fs[i] EXCEPT !.ScanProgress = scanProgress] ELSE fs[i]]

updateFolderStats(fs, statsDict) ==
  [i \in DOMAIN fs |->
     IF fs[i].Config.ID \in DOMAIN statsDict
     THEN [fs[i] EXCEPT !.ExtraStats = statsDict[fs[i].Config.ID]] ELSE fs[i]]

updateDeviceExtraStats(ds, statsDict) ==
  [i \in DOMAIN ds |->
     IF ds[i].Config.DeviceID \in DOMAIN statsDict
     THEN [ds[i] EXCEPT !.ExtraStats = statsDict[ds[i].Config.DeviceID]] ELSE ds[i]]

\* Go's integer division truncates toward zero
GoDiv(a, b) ==
  LET q == (IF a < 0 THEN -a ELSE a) \div (IF b < 0 THEN -b ELSE b)
  IN IF (a < 0) # (b < 0) THEN -q ELSE q

\* before, after: TotalBytes{bytes, at}, times in milliseconds;
\* int64(d.Seconds()) drops the fraction of a second, towards zero
byteThroughputInSeconds(before, after) ==
  IF before.bytes = 0 THEN 0
  ELSE LET deltaBytes == after.bytes - before.bytes
           deltaTime  == GoDiv(after.at - before.at, 1000)
       IN IF deltaTime = 0 THEN 0 ELSE GoDiv(deltaBytes, deltaTime)

\* the pair (in, out) of bytes per second between two samples
calcInOutBytes(before, after) ==
  << byteThroughputInSeconds([bytes |-> before.InBytesTotal, at |-> before.At],
                             [bytes |-> after.InBytesTotal, at |-> after.At]),
     byteThroughputInSeconds([bytes |-> before.OutBytesTotal, at |-> before.At],
                             [bytes |-> after.OutBytesTotal, at |-> after.At]) >>

\* m[key] of a Go map: the zero value when the key is absent
MapGet(map, key, zero) == IF key \in DOMAIN map THEN map[key] ELSE zero

MapPut(map, key, val) ==
  [k \in (DOMAIN map) \cup {key} |-> IF k = key THEN val ELSE map[k]]
MapDelete(map, key) ==
  [k \in (DOMAIN map) \ {key} |-> map[k]]

updateDeviceStatusCompletion(ds, deviceID, folderID, statusCompletion) ==
  LET k == FirstIndex(ds, LAMBDA item : item.Config.DeviceID = deviceID)
  IN IF k = 0 THEN ds
     ELSE [ds EXCEPT ![k].StatusCompletion = MapPut(@, folderID, statusCompletion)]

thisDeviceName(myID, config) ==
  LET k == FirstIndex(config.Devices, LAMBDA device : device.DeviceID = myID)
  IN IF k # 0 THEN config.Devices[k].Name ELSE "no-name"

\* the StatusCompletion built from a FolderCompletion event, field by field
completionOfEvent(data) ==
  [Completion |-> data.Completion, GlobalBytes |-> data.GlobalBytes,
   GlobalItems |-> data.GlobalItems, NeedBytes |-> data.NeedBytes,
   NeedDeletes |-> data.NeedDeletes, NeedItems |-> data.NeedItems,
   RemoteState |-> data.RemoteState, Sequence |-> data.Sequence]

RECURSIVE addPending(_, _, _)
addPending(pending, added, at) ==
  IF added = << >> THEN pending
  ELSE addPending(MapPut(pending, Head(added).DeviceID,
                         [DeviceID |-> Head(added).DeviceID, Name |-> Head(added).Name,
                          Address |-> Head(added).Address, At |-> at]),
                  Tail(added), at)

\* mutant of removePending: the removed list is ignored
removePendingNothing(pending, removed) == pending

RECURSIVE removePending(_, _)
removePending(pending, removed) ==
  IF removed = << >> THEN pending
  ELSE removePending(MapDelete(pending, Head(removed).DeviceID), Tail(removed))

\* one iteration of the loop over msg.events in Update; st carries the
\* model fields the loop writes and the commands it has collected
applyEvent(st, e, thisDeviceID) ==
  LET data == e.Data.val IN
  CASE e.Data.variant = "FolderSummaryEventData" ->
         [st EXCEPT !.folders = updateFolderStatus(@, data.Folder, data.Summary)]
    [] e.Data.variant = "Config" ->
         [st EXCEPT !.putConfig = createPutConfig(data),
                    !.folders = updateFolderViewModelConfigs(data, @, thisDeviceID),
                    !.devices = updateDeviceViewModelConfigs(data, @, thisDeviceID)]
    [] e.Data.variant = "FolderScanProgressEventData" ->
         [st EXCEPT !.folders = updateFolderScan(@, data)]
    [] e.Data.variant = "StateChangedEventData" ->
         [st EXCEPT !.folders = IF data.To = "scanning"
                                THEN updateFolderScan(@, EmptyScanProgress) ELSE @,
                    !.cmds = IF data.From = "scanning" /\ data.To = "idle"
                             THEN Append(@, fetchFolderStats) ELSE @]
    [] e.Data.variant = "FolderCompletionEventData" ->
         [st EXCEPT !.devices = updateDeviceStatusCompletion(@, data.Device, data.Folder,
                                                             completionOfEvent(data))]
    [] e.Data.variant = "PendingDevicesChangedEventData" ->
         [st EXCEPT !.pendingDevices =
                       removePending(addPending(@, data.Added, e.Time), data.Removed)]
    [] OTHER -> st

\* mutant of applyEvents: the batch is iterated from its last event
RECURSIVE applyEventsBackwards(_, _, _)
applyEventsBackwards(st, events, thisDeviceID) ==
  IF events = << >> THEN st
  ELSE LET rest == applyEventsBackwards(st, Tail(events), thisDeviceID)
       IN [applyEvent(rest, Head(events), thisDeviceID)
             EXCEPT !.seen = Append(@, Head(events).ID)]

\* the loop "for _, e := range msg.events" of case FetchedEventsMsg
RECURSIVE applyEvents(_, _, _)
applyEvents(st, events, thisDeviceID) ==
  IF events = << >> THEN st
  ELSE applyEvents([applyEvent(st, Head(events), thisDeviceID)
                      EXCEPT !.seen = Append(@, Head(events).ID)],
                   Tail(events), thisDeviceID)

\* ------------------------------- daemon --------------------------------
\* payloads the daemon can put in an event, by type tag
SummaryIdle == [EmptyFolderStatus EXCEPT !.State = "idle"]
CompletionD1 == [Device |-> "d1", Folder |-> "f1", Completion |-> 50,
                 GlobalBytes |-> 8, GlobalItems |-> 2, NeedBytes |-> 4,
                 NeedDeletes |-> 0, NeedItems |-> 1, RemoteState |-> "valid",
                 Sequence |-> 7]
PendingA == [DeviceID |-> "pA", Name |-> "A", Address |-> "addrA"]

WellFormedPayloads(type) ==
  CASE type = "FolderSummary" ->
         {[Folder |-> "f1", Summary |-> SummaryIdle]}
    [] type = "ConfigSaved" -> {CfgB}
    [] type = "FolderScanProgress" ->
         {[Folder |-> "f1", Current |-> 1, Total |-> 2]}
    [] type = "StateChanged" ->
         {[Folder |-> "f1", From |-> "idle", To |-> "scanning"],
          [Folder |-> "f1", From |-> "scanning", To |-> "idle"]}
    [] type = "FolderCompletion" -> {CompletionD1}
    [] type = "PendingDevicesChanged" ->
         {[Added |-> << PendingA >>, Removed |-> << >>],
          [Added |-> << >>, Removed |-> << [DeviceID |-> "pA"] >>]}
    [] OTHER -> {[device |-> "d1"]}

\* the type tags the daemon uses here: the known ones and one the client
\* has no variant for
EventTypes == KnownTypes \cup {"DeviceConnected"}

\* a payload of a known type that json.Unmarshal rejects
Malformed == [bad |-> TRUE]

Payloads(type) ==
  {Raw(v, TRUE) : v \in WellFormedPayloads(type)}
  \cup (IF type \in KnownTypes THEN {Raw(Malformed, FALSE)} ELSE {})

\* the log of a daemon that has started: the API is served only after the
\* daemon has logged its startup
StartupLog ==
  << [ID |-> 1, Time |-> 1, Type |-> "Starting", Data |-> Raw([home |-> "dir"], TRUE)] >>

\* the daemon appends an event to its log; a ConfigSaved event announces
\* the configuration the daemon has just saved
DaemonEmit(type, data) ==
  /\ Len(log) < Len(StartupLog) + MaxEvents
  /\ log' = Append(log, [ID |-> Len(log) + 1, Time |-> Len(log) + 1,
                         Type |-> type, Data |-> data])
  /\ dconfig' = IF type = "ConfigSaved" /\ data.wellFormed THEN data.val ELSE dconfig
  /\ UNCHANGED << cmds, msgs, initSeq, err, projection, history, others >>

\* the key the daemon accepts; a request carrying any other X-API-Key is
\* answered with a status page that is no JSON, which json.Unmarshal rejects
SYNCTHING_API_KEY == "key"
Authorized == httpData.apiKey = SYNCTHING_API_KEY

\* ------------------------------ runtime --------------------------------
Running(c)  == BagIn(c, cmds) /\ c.wait = 0
Finish(c, msg) ==
  /\ cmds' = cmds (-) SetToBag({c})
  /\ msgs' = msgs (+) SetToBag({msg})
\* Update consumes msg and returns the commands in the sequence issued
Handled(msg, issued) ==
  /\ msgs' = msgs (-) SetToBag({msg})
  /\ cmds' = cmds (+) BagOfSeq(issued)

\* one second of the delay of a tea.Tick command elapses
TickElapses(c) ==
  /\ BagIn(c, cmds) /\ c.wait > 0
  /\ cmds' = (cmds (-) SetToBag({c})) (+) SetToBag({[c EXCEPT !.wait = @ - 1]})
  /\ UNCHANGED << daemon, msgs, initSeq, err, projection, history, others >>

\* fetchEvents: fetchBytes fails (transport error or undecodable body)
fetchEventsFails(c) ==
  /\ Running(c) /\ c.cmd = "fetchEvents"
  /\ Finish(c, FetchedEventsMsg(<< >>, c.since, ErrTransport))
  /\ UNCHANGED << daemon, initSeq, err, projection, history, others >>

\* fetchEvents: the daemon answers and the batch is decoded
fetchEventsReturns(c) ==
  /\ Running(c) /\ c.cmd = "fetchEvents"
  /\ Authorized
  /\ LET r == parseEvents(EventsSince(c.since), << >>, NoErr)
     IN Finish(c, FetchedEventsMsg(r.events, c.since, r.err))
  /\ UNCHANGED << daemon, initSeq, err, projection, history, others >>

fetchSystemStatusRuns(c) ==
  /\ Running(c) /\ c.cmd = "fetchSystemStatus"
  /\ \/ Finish(c, FetchedSystemStatusMsg([MyID |-> "", Uptime |-> 0], ErrTransport))
     \/ Authorized /\ Finish(c, FetchedSystemStatusMsg([MyID |-> MyID, Uptime |-> 1], NoErr))
  /\ UNCHANGED << daemon, initSeq, err, projection, history, others >>

fetchConfigRuns(c) ==
  /\ Running(c) /\ c.cmd = "fetchConfig"
  /\ \/ Finish(c, FetchedConfig(NoConfig, ErrTransport))
     \/ Authorized /\ Finish(c, FetchedConfig(dconfig, NoErr))
  /\ UNCHANGED << daemon, initSeq, err, projection, history, others >>

\* --------------------- answers of the other endpoints ------------------
\* the k-th sample of /rest/system/connections: totals grow with time
ConnectionsAt(k) ==
  [Connections |-> [d \in {"d1"} |->
                      [Connected |-> TRUE, InBytesTotal |-> 10 * k,
                       OutBytesTotal |-> 20 * k, At |-> 10000 * k]],
   Total |-> [At |-> 10000 * k, InBytesTotal |-> 10 * k, OutBytesTotal |-> 20 * k]]
SampleOf(connections) == connections.Total.At \div 10000

VersionV1      == [Version |-> "v1"]
FolderStatsNow == [f \in {"f1"} |-> [LastScan |-> 5]]
DeviceStatsNow == [d \in {"d1"} |-> [LastSeen |-> 3]]
SummaryScanning == [EmptyFolderStatus EXCEPT !.State = "scanning", !.NeedTotalItems = 1]
\* /rest/cluster/pending/devices: nobody pending, or device pA
PendingAnswers ==
  {EmptyMap, [d \in {"pA"} |-> [Name |-> "A", Address |-> "addrA", Time |-> 4]]}

\* fetchSystemConnections: a later sample than the one the command holds
fetchSystemConnectionsRuns(c) ==
  /\ Running(c) /\ c.cmd = "fetchSystemConnections"
  /\ \/ Finish(c, FetchedSystemConnectionsMsg(NoConnections, NoConnections, ErrTransport))
     \/ Authorized /\ \E k \in (SampleOf(c.prev) + 1)..MaxSamples :
          Finish(c, FetchedSystemConnectionsMsg(c.prev, ConnectionsAt(k), NoErr))
  /\ UNCHANGED << daemon, initSeq, err, projection, history, others >>

fetchSystemVersionRuns(c) ==
  /\ Running(c) /\ c.cmd = "fetchSystemVersion"
  /\ \/ Finish(c, FetchedSystemVersionMsg(NoVersion, ErrTransport))
     \/ Authorized /\ Finish(c, FetchedSystemVersionMsg(VersionV1, NoErr))
  /\ UNCHANGED << daemon, initSeq, err, projection, history, others >>

\* fetchFolderStatus: a failed fetch returns FetchedFolderStatus{err: err},
\* the id left at its zero value
fetchFolderStatusRuns(c) ==
  /\ Running(c) /\ c.cmd = "fetchFolderStatus"
  /\ \/ Finish(c, FetchedFolderStatus(EmptyFolderStatus, "", ErrTransport))
     \/ Authorized /\ \E st \in {SummaryIdle, SummaryScanning} :
          Finish(c, FetchedFolderStatus(st, c.folder, NoErr))
  /\ UNCHANGED << daemon, initSeq, err, projection, history, others >>

fetchFolderStatsRuns(c) ==
  /\ Running(c) /\ c.cmd = "fetchFolderStats"
  /\ \/ Finish(c, FetchedFolderStats(EmptyMap, ErrTransport))
     \/ Authorized /\ Finish(c, FetchedFolderStats(FolderStatsNow, NoErr))
  /\ UNCHANGED << daemon, initSeq, err, projection, history, others >>

fetchDeviceStatsRuns(c) ==
  /\ Running(c) /\ c.cmd = "fetchDeviceStats"
  /\ \/ Finish(c, FetchedDeviceStats(EmptyMap, ErrTransport))
     \/ Authorized /\ Finish(c, FetchedDeviceStats(DeviceStatsNow, NoErr))
  /\ UNCHANGED << daemon, initSeq, err, projection, history, others >>

\* fetchCompletion: transport or decoding error, HTTP 404, or a completion
fetchCompletionRuns(c) ==
  /\ Running(c) /\ c.cmd = "fetchCompletion"
  /\ \/ Finish(c, FetchedCompletion(c.device, c.folder, ZeroCompletion, FALSE, ErrTransport))
     \/ Authorized /\ Finish(c, FetchedCompletion(c.device, c.folder, ZeroCompletion, FALSE, NoErr))
     \/ Authorized /\ Finish(c, FetchedCompletion(c.device, c.folder, completionOfEvent(CompletionD1),
                                    TRUE, NoErr))
  /\ UNCHANGED << daemon, initSeq, err, projection, history, others >>

\* fetchPendingDevices: a transport error returns nil (no message), an
\* undecodable body returns the error, otherwise the pending devices
fetchPendingDevicesRuns(c) ==
  /\ Running(c) /\ c.cmd = "fetchPendingDevices"
  /\ \/ cmds' = cmds (-) SetToBag({c}) /\ UNCHANGED msgs
     \/ Finish(c, FetchedPendingDevices(ErrUnmarshal, EmptyMap))
     \/ Authorized /\ \E ds \in PendingAnswers : Finish(c, FetchedPendingDevices(NoErr, ds))
  /\ UNCHANGED << daemon, initSeq, err, projection, history, others >>

\* ------------------------------- Update --------------------------------
\* the cursor the handler computes from a delivered batch
nextSince(msg) ==
  IF Len(msg.events) > 0 THEN Last(msg.events).ID ELSE 0

\* mutant of isFirstRequest: the first response is applied like any other
neverFirstRequest(msg) == FALSE

\* "ignore the first request"
isFirstRequest(msg) == msg.since = 0

\* mutant of eventsRetry: the retry is issued at once
eventsRetryNow(msg) == << fetchEvents(msg.since) >>

\* mutant of eventsRetry: a failed poll is not retried
eventsGiveUp(msg) == << >>

\* the command returned when the poll failed
eventsRetry(msg) == << wait(RETRY_DELAY, fetchEvents(msg.since)) >>

\* the command that continues the loop after a batch
\* mutant of eventsContinue: the follow-up poll is issued twice
eventsContinueTwice(since) == << fetchEvents(since), fetchEvents(since) >>

eventsContinue(since) == << fetchEvents(since) >>

\* the commands of the tea.Batch that closes Init's sequence
InitBatch ==
  << fetchSystemConnections(NoConnections), fetchSystemVersion, fetchEvents(0),
     fetchDeviceStats, fetchFolderStats, fetchPendingDevices, currentTimeCmd >>

\* case FetchedEventsMsg
UpdateFetchedEventsMsg(msg) ==
  /\ BagIn(msg, msgs) /\ msg.type = "FetchedEventsMsg"
  /\ LET since == nextSince(msg)
         st0   == [folders |-> folders, devices |-> devices,
                   pendingDevices |-> pendingDevices, putConfig |-> putConfig,
                   cmds |-> << >>, seen |-> << >>]
         st    == applyEvents(st0, msg.events, thisDeviceStatus.ID)
     IN IF msg.err # NoErr
        THEN /\ err' = msg.err
             /\ Handled(msg, eventsRetry(msg))
             /\ UNCHANGED << projection, history >>
        ELSE IF isFirstRequest(msg)
        THEN /\ Handled(msg, eventsContinue(since))
             /\ firstTip' = IF firstTip = 0 THEN since ELSE firstTip
             /\ UNCHANGED << err, projection, applied >>
        ELSE /\ folders' = st.folders
             /\ devices' = st.devices
             /\ pendingDevices' = st.pendingDevices
             /\ putConfig' = st.putConfig
             /\ applied' = IF st.seen = << >> THEN applied
                            ELSE Append(applied, [since |-> msg.since, ids |-> st.seen])
             /\ Handled(msg, st.cmds \o eventsContinue(since))
             /\ UNCHANGED << err, thisDeviceStatus, firstTip >>
  /\ UNCHANGED << daemon, initSeq, others >>

\* case FetchedSystemStatusMsg; the first one is the second entry of
\* Init's sequence, whose delivery lets the runtime start the next entry
UpdateFetchedSystemStatusMsg(msg) ==
  /\ BagIn(msg, msgs) /\ msg.type = "FetchedSystemStatusMsg"
  /\ IF msg.err # NoErr
     THEN /\ err' = msg.err
          /\ UNCHANGED thisDeviceStatus
     ELSE /\ thisDeviceStatus' = [thisDeviceStatus EXCEPT !.ID = msg.status.MyID,
                                                          !.UpTime = msg.status.Uptime]
          /\ UNCHANGED err
  /\ Handled(msg, << wait(REFETCH_STATUS_INTERVAL, fetchSystemStatus) >>
                  \o (IF initSeq = 0 THEN << fetchConfig >> ELSE << >>))
  /\ initSeq' = IF initSeq = 0 THEN 1 ELSE initSeq
  /\ UNCHANGED << daemon, folders, devices, pendingDevices, putConfig, history, others >>

\* the fetches FetchedConfig issues: one status per folder, one completion
\* per (folder, device) pair
configFetches(config) ==
  Flatten([i \in DOMAIN config.Folders |->
             << fetchFolderStatus(config.Folders[i].ID) >>
             \o [j \in DOMAIN config.Folders[i].Devices |->
                   fetchCompletion(config.Folders[i].Devices[j], config.Folders[i].ID)]])

\* case FetchedConfig; the one fetchConfig is the third entry of Init's
\* sequence, whose delivery lets the runtime start the closing batch
UpdateFetchedConfig(msg) ==
  /\ BagIn(msg, msgs) /\ msg.type = "FetchedConfig"
  /\ IF msg.err # NoErr
     THEN /\ err' = msg.err
          /\ Handled(msg, IF initSeq = 1 THEN InitBatch ELSE << >>)
          /\ UNCHANGED projection
     ELSE /\ putConfig' = createPutConfig(msg.config)
          /\ folders' = updateFolderViewModelConfigs(msg.config, folders, thisDeviceStatus.ID)
          /\ devices' = updateDeviceViewModelConfigs(msg.config, devices, thisDeviceStatus.ID)
          /\ thisDeviceStatus' =
               [thisDeviceStatus EXCEPT
                  !.Name = thisDeviceName(thisDeviceStatus.ID, msg.config),
                  !.MaxSendKbps = msg.config.Options.MaxSendKbps,
                  !.MaxRecvKbps = msg.config.Options.MaxRecvKbps]
          /\ Handled(msg, configFetches(msg.config)
                          \o (IF initSeq = 1 THEN InitBatch ELSE << >>))
          /\ UNCHANGED << err, pendingDevices >>
  /\ initSeq' = IF initSeq = 1 THEN 2 ELSE initSeq
  /\ UNCHANGED << daemon, history, others >>

\* case FetchedSystemVersionMsg
UpdateFetchedSystemVersionMsg(msg) ==
  /\ BagIn(msg, msgs) /\ msg.type = "FetchedSystemVersionMsg"
  /\ IF msg.err # NoErr
     THEN err' = msg.err /\ UNCHANGED version
     ELSE version' = msg.version /\ UNCHANGED err
  /\ Handled(msg, << >>)
  /\ UNCHANGED << daemon, initSeq, projection, history, panicked, httpData, user, call >>

\* the loop over m.devices of case FetchedSystemConnectionsMsg
updateDeviceConnections(ds, prevConnections, connections) ==
  [i \in DOMAIN ds |->
     LET id    == ds[i].Config.DeviceID
         inOut == calcInOutBytes(MapGet(prevConnections.Connections, id, EmptyConnection),
                                 MapGet(connections.Connections, id, EmptyConnection))
     IN [ds[i] EXCEPT
           !.InGoingBytesPerSecond = inOut[1],
           !.OutGoingBytesPerSecond = inOut[2],
           !.Connection = << id \in DOMAIN connections.Connections,
                             MapGet(connections.Connections, id, EmptyConnection) >>]]

\* mutant of connectionsContinue: the next fetch keeps the older sample
connectionsContinueStale(msg) ==
  << wait(REFETCH_STATUS_INTERVAL, fetchSystemConnections(msg.prevConnections)) >>

\* the command that continues the connections loop
connectionsContinue(msg) ==
  << wait(REFETCH_STATUS_INTERVAL, fetchSystemConnections(msg.connections)) >>

\* case FetchedSystemConnectionsMsg
UpdateFetchedSystemConnectionsMsg(msg) ==
  /\ BagIn(msg, msgs) /\ msg.type = "FetchedSystemConnectionsMsg"
  /\ IF msg.err # NoErr
     THEN /\ err' = msg.err
          /\ Handled(msg, << >>)
          /\ UNCHANGED << thisDeviceStatus, devices >>
     ELSE /\ LET inOut == calcInOutBytes(msg.prevConnections.Total, msg.connections.Total)
             IN thisDeviceStatus' =
                  [thisDeviceStatus EXCEPT
                     !.InBytesTotal = msg.connections.Total.InBytesTotal,
                     !.OutBytesTotal = msg.prevConnections.Total.OutBytesTotal,
                     !.InGoingBytesPerSecond = inOut[1],
                     !.OutGoingBytesPerSecond = inOut[2]]
          /\ devices' = updateDeviceConnections(devices, msg.prevConnections, msg.connections)
          /\ Handled(msg, connectionsContinue(msg))
          /\ UNCHANGED err
  /\ UNCHANGED << daemon, initSeq, folders, pendingDevices, putConfig, history, others >>

\* case FetchedFolderStats
UpdateFetchedFolderStats(msg) ==
  /\ BagIn(msg, msgs) /\ msg.type = "FetchedFolderStats"
  /\ IF msg.err # NoErr
     THEN err' = msg.err /\ UNCHANGED folders
     ELSE folders' = updateFolderStats(folders, msg.folderStats) /\ UNCHANGED err
  /\ Handled(msg, << >>)
  /\ UNCHANGED << daemon, initSeq, thisDeviceStatus, devices, pendingDevices, putConfig,
                  history, others >>

\* case FetchedFolderStatus
UpdateFetchedFolderStatus(msg) ==
  /\ BagIn(msg, msgs) /\ msg.type = "FetchedFolderStatus"
  /\ folders' = IF msg.err # NoErr
                THEN updateFolderStatus(folders, msg.id, EmptyFolderStatus)
                ELSE updateFolderStatus(folders, msg.id, msg.folderStatus)
  /\ Handled(msg, << >>)
  /\ UNCHANGED << daemon, initSeq, err, thisDeviceStatus, devices, pendingDevices,
                  putConfig, history, others >>

\* case FetchedDeviceStats
UpdateFetchedDeviceStats(msg) ==
  /\ BagIn(msg, msgs) /\ msg.type = "FetchedDeviceStats"
  /\ IF msg.err # NoErr
     THEN err' = msg.err /\ UNCHANGED devices
     ELSE devices' = updateDeviceExtraStats(devices, msg.deviceStats) /\ UNCHANGED err
  /\ Handled(msg, << >>)
  /\ UNCHANGED << daemon, initSeq, thisDeviceStatus, folders, pendingDevices, putConfig,
                  history, others >>

\* case FetchedCompletion
UpdateFetchedCompletion(msg) ==
  /\ BagIn(msg, msgs) /\ msg.type = "FetchedCompletion"
  /\ IF msg.err # NoErr
     THEN err' = msg.err /\ UNCHANGED devices
     ELSE /\ devices' =
               IF msg.hasCompletion
               THEN updateDeviceStatusCompletion(devices, msg.deviceID, msg.folderID,
                                                 msg.completion)
               ELSE updateDeviceStatusCompletion(devices, msg.deviceID, msg.folderID,
                                                 ZeroCompletion)
          /\ UNCHANGED err
  /\ Handled(msg, << >>)
  /\ UNCHANGED << daemon, initSeq, thisDeviceStatus, folders, pendingDevices, putConfig,
                  history, others >>

\* the loop over msg.devices of case FetchedPendingDevices
putPendingDevices(pending, ds) ==
  [k \in (DOMAIN pending) \cup (DOMAIN ds) |->
     IF k \in DOMAIN ds
     THEN [DeviceID |-> k, Name |-> ds[k].Name, Address |-> ds[k].Address,
           At |-> ds[k].Time]
     ELSE pending[k]]

UpdateFetchedPendingDevicesClearing(msg) ==
  /\ BagIn(msg, msgs) /\ msg.type = "FetchedPendingDevices"
  /\ IF msg.err # NoErr
     THEN /\ panicked' = TRUE
          /\ cmds' = EmptyBag
          /\ msgs' = EmptyBag
          /\ UNCHANGED << pendingDevices, err >>
     ELSE /\ pendingDevices' = putPendingDevices(pendingDevices, msg.devices)
          /\ Handled(msg, << >>)
          /\ err' = NoErr
          /\ UNCHANGED panicked
  /\ UNCHANGED << daemon, initSeq, thisDeviceStatus, folders, devices, putConfig,
                  history, version, httpData, user, call >>

\* case FetchedPendingDevices: panic(msg.err) ends the process and with it
\* every command and message in flight
UpdateFetchedPendingDevices(msg) ==
  /\ BagIn(msg, msgs) /\ msg.type = "FetchedPendingDevices"
  /\ IF msg.err # NoErr
     THEN /\ panicked' = TRUE
          /\ cmds' = EmptyBag
          /\ msgs' = EmptyBag
          /\ UNCHANGED pendingDevices
     ELSE /\ pendingDevices' = putPendingDevices(pendingDevices, msg.devices)
          /\ Handled(msg, << >>)
          /\ UNCHANGED panicked
  /\ UNCHANGED << daemon, initSeq, err, thisDeviceStatus, folders, devices, putConfig,
                  history, version, httpData, user, call >>

\* ---------------------------- specification ----------------------------
ZeroDeviceStatus ==
  [ID |-> "", Name |-> "", InGoingBytesPerSecond |-> 0, OutGoingBytesPerSecond |-> 0,
   InBytesTotal |-> 0, OutBytesTotal |-> 0, UpTime |-> 0,
   MaxSendKbps |-> 0, MaxRecvKbps |-> 0]

\* AddDeviceModel (zero value): not shown
NoModal == [Show |-> FALSE, deviceID |-> ""]

\* no pure operation has been applied
NoCall == [fn |-> "none"]

\* NewModel, which reads the key from the environment, followed by Init:
\* the first entry of the sequence is running; the daemon holds config
NewModelAgainst(syncthingApiKey, config) ==
  /\ log = StartupLog
  /\ dconfig = config
  /\ cmds = SetToBag({fetchSystemStatus})
  /\ msgs = EmptyBag
  /\ initSeq = 0
  /\ err = NoErr
  /\ thisDeviceStatus = ZeroDeviceStatus
  /\ folders = << >>
  /\ devices = << >>
  /\ pendingDevices = EmptyMap
  /\ putConfig = NoConfig
  /\ applied = << >>
  /\ firstTip = 0
  /\ version = NoVersion
  /\ panicked = FALSE
  /\ httpData = [apiKey |-> syncthingApiKey]
  /\ ongoingUserAction = FALSE
  /\ addDeviceModal = NoModal
  /\ call = NoCall

NewModel(syncthingApiKey) == NewModelAgainst(syncthingApiKey, CfgA)

Init == NewModel(SYNCTHING_API_KEY)

Emit == \E type \in EventTypes : \E data \in Payloads(type) : DaemonEmit(type, data)

RetryDelayElapses == \E c \in BagToSet(cmds) : c.cmd = "fetchEvents" /\ TickElapses(c)
PollFails         == \E c \in BagToSet(cmds) : fetchEventsFails(c)
PollReturns       == \E c \in BagToSet(cmds) : fetchEventsReturns(c)
StatusRuns        == \E c \in BagToSet(cmds) : fetchSystemStatusRuns(c)
ConfigRuns        == \E c \in BagToSet(cmds) : fetchConfigRuns(c)
HandleEvents      == \E msg \in BagToSet(msgs) : UpdateFetchedEventsMsg(msg)
HandleStatus      == \E msg \in BagToSet(msgs) : UpdateFetchedSystemStatusMsg(msg)
HandleConfig      == \E msg \in BagToSet(msgs) : UpdateFetchedConfig(msg)

\* the Init sequence and the event cursor loop against the daemon
Next ==
  \/ Emit
  \/ StatusRuns
  \/ HandleStatus
  \/ ConfigRuns
  \/ HandleConfig
  \/ PollReturns
  \/ PollFails
  \/ HandleEvents
  \/ RetryDelayElapses

Spec == Init /\ [][Next]_vars

TypeOK == initSeq \in 0..2

VersionRuns       == \E c \in BagToSet(cmds) : fetchSystemVersionRuns(c)
FolderStatusRuns  == \E c \in BagToSet(cmds) : fetchFolderStatusRuns(c)
FolderStatsRuns   == \E c \in BagToSet(cmds) : fetchFolderStatsRuns(c)
DeviceStatsRuns   == \E c \in BagToSet(cmds) : fetchDeviceStatsRuns(c)
CompletionRuns    == \E c \in BagToSet(cmds) : fetchCompletionRuns(c)
PendingRuns       == \E c \in BagToSet(cmds) : fetchPendingDevicesRuns(c)
ConnectionsRuns   == \E c \in BagToSet(cmds) : fetchSystemConnectionsRuns(c)
HandleVersion     == \E msg \in BagToSet(msgs) : UpdateFetchedSystemVersionMsg(msg)
HandleFolderStatus == \E msg \in BagToSet(msgs) : UpdateFetchedFolderStatus(msg)
HandleFolderStats == \E msg \in BagToSet(msgs) : UpdateFetchedFolderStats(msg)
HandleDeviceStats == \E msg \in BagToSet(msgs) : UpdateFetchedDeviceStats(msg)
HandleCompletion  == \E msg \in BagToSet(msgs) : UpdateFetchedCompletion(msg)
HandlePending     == \E msg \in BagToSet(msgs) : UpdateFetchedPendingDevices(msg)
HandleConnections == \E msg \in BagToSet(msgs) : UpdateFetchedSystemConnectionsMsg(msg)
RefreshDelayElapses ==
  \E c \in BagToSet(cmds) :
     c.cmd \in {"fetchSystemStatus", "fetchSystemConnections"} /\ TickElapses(c)

\* Init's sequence and the fetches of the projection that run once: those
\* of Init's batch and those FetchedConfig issues
NextFetch ==
  \/ StatusRuns
  \/ HandleStatus
  \/ ConfigRuns
  \/ HandleConfig
  \/ FolderStatusRuns
  \/ HandleFolderStatus
  \/ FolderStatsRuns
  \/ HandleFolderStats
  \/ DeviceStatsRuns
  \/ HandleDeviceStats
  \/ CompletionRuns
  \/ HandleCompletion
  \/ PendingRuns
  \/ HandlePending

SpecFetch == Init /\ [][NextFetch]_vars

\* Init's sequence, the version fetch and the two refresh loops: system
\* status and connections
NextRefresh ==
  \/ StatusRuns
  \/ HandleStatus
  \/ ConfigRuns
  \/ HandleConfig
  \/ VersionRuns
  \/ HandleVersion
  \/ ConnectionsRuns
  \/ HandleConnections
  \/ RefreshDelayElapses

SpecRefresh == Init /\ [][NextRefresh]_vars

\* the daemon reports a folder summary or a completion of a remote device
EmitSummaryOrCompletion ==
  \/ DaemonEmit("FolderSummary", Raw([Folder |-> "f1", Summary |-> SummaryIdle], TRUE))
  \/ DaemonEmit("FolderCompletion", Raw(CompletionD1, TRUE))

\* Init's sequence, then the snapshot fetches FetchedConfig issues (folder
\* status, completion) racing the event loop that delivers the same data
NextSnapshot ==
  \/ StatusRuns
  \/ HandleStatus
  \/ ConfigRuns
  \/ HandleConfig
  \/ EmitSummaryOrCompletion
  \/ PollReturns
  \/ HandleEvents
  \/ FolderStatusRuns
  \/ HandleFolderStatus
  \/ CompletionRuns
  \/ HandleCompletion

SpecSnapshot == Init /\ [][NextSnapshot]_vars

\* ------------------------ started without a key ------------------------
\* SYNCTHING_API_KEY is not set in the environment
InitNoKey == NewModel("")

\* what model.View shows: the missing key, else the error, else the panels
View ==
  IF httpData.apiKey = "" THEN "Missing api key to acess syncthing. Env: SYNCTHING_API_KEY"
  ELSE IF err # NoErr THEN err
  ELSE "main"

\* Init's sequence and batch, the event loop and the refresh loops, the
\* daemon refusing every request
NextNoKey ==
  \/ StatusRuns
  \/ HandleStatus
  \/ ConfigRuns
  \/ HandleConfig
  \/ PollFails
  \/ HandleEvents
  \/ RetryDelayElapses
  \/ VersionRuns
  \/ HandleVersion
  \/ ConnectionsRuns
  \/ HandleConnections
  \/ RefreshDelayElapses
  \/ FolderStatsRuns
  \/ HandleFolderStats
  \/ DeviceStatsRuns
  \/ HandleDeviceStats
  \/ PendingRuns
  \/ HandlePending

SpecNoKey == InitNoKey /\ [][NextNoKey]_vars

\* ------------------------ the clicks of the user -----------------------
\* the commands a click issues
updateFolderPause(folderID, paused) ==
  [cmd |-> "updateFolderPause", folder |-> folderID, paused |-> paused, wait |-> 0]
deletePendingDevice(deviceID) ==
  [cmd |-> "deletePendingDevice", device |-> deviceID, wait |-> 0]
\* m.putConfig(httpData, change): the PUT of the config closed over, with
\* the device appended to its ignored devices
putConfigIgnoring(config, deviceID) ==
  [cmd |-> "putConfig", config |-> config, ignored |-> deviceID, wait |-> 0]
PostDeviceConfig(deviceID, name) ==
  [cmd |-> "PostDeviceConfig", device |-> deviceID, name |-> name, wait |-> 0]

UserPostPutEndedMsg(e, action) ==
  [type |-> "UserPostPutEndedMsg", err |-> e, action |-> action]
\* an error value returned as the message of a command
errMsg(e) == [type |-> "errMsg", err |-> e]

UserCmdNames == {"updateFolderPause", "deletePendingDevice", "putConfig", "PostDeviceConfig"}
UserCmds == {c \in BagToSet(cmds) : c.cmd \in UserCmdNames}
UserMsgs == {m \in BagToSet(msgs) : m.type \in {"UserPostPutEndedMsg", "errMsg"}}
UserInFlight ==
  BagCardinality([c \in UserCmds |-> cmds[c]])
    + BagCardinality([m \in UserMsgs |-> msgs[m]])

\* viewFolders marks "Pause All" unless every folder is paused and "Resume
\* All" when some folder is paused
areAllFoldersPaused == \A i \in DOMAIN folders : folders[i].Config.Paused
anyFolderPaused     == \E i \in DOMAIN folders : folders[i].Config.Paused

\* a tea.MouseMsg (left button released) in a zone of the panels View has
\* drawn reaches handleMouseLeftClick and returns the commands issued
Clicked(issued) ==
  /\ ~panicked
  /\ View = "main"
  /\ ~addDeviceModal.Show
  /\ UserInFlight + Len(issued) <= MaxUserCmds
  /\ cmds' = cmds (+) BagOfSeq(issued)
  /\ UNCHANGED << daemon, msgs, initSeq, err, projection, history, version, panicked,
                  httpData, call >>

\* the click is in PAUSE_ALL_MARK
ClickPauseAll ==
  /\ ~areAllFoldersPaused
  /\ ~ongoingUserAction
  /\ Clicked([i \in DOMAIN folders |-> updateFolderPause(folders[i].Config.ID, TRUE)])
  /\ ongoingUserAction' = TRUE
  /\ UNCHANGED addDeviceModal

\* the click is in RESUME_ALL_MARK
ClickResumeAll ==
  /\ anyFolderPaused
  /\ Clicked([i \in DOMAIN folders |-> updateFolderPause(folders[i].Config.ID, FALSE)])
  /\ ongoingUserAction' = TRUE
  /\ UNCHANGED addDeviceModal

\* the click is in the TogglePauseMark of a folder
ClickTogglePause ==
  \E i \in DOMAIN folders :
     /\ ~ongoingUserAction
     /\ Clicked(<< updateFolderPause(folders[i].Config.ID, ~folders[i].Config.Paused) >>)
     /\ ongoingUserAction' = TRUE
     /\ UNCHANGED addDeviceModal

\* the click is in the DismissMark of a pending device
ClickDismiss ==
  \E d \in DOMAIN pendingDevices :
     /\ Clicked(<< deletePendingDevice(d) >>)
     /\ UNCHANGED user

\* the click is in the IgnoreMark of a pending device
ClickIgnore ==
  \E d \in DOMAIN pendingDevices :
     /\ Clicked(<< putConfigIgnoring(putConfig, d) >>)
     /\ UNCHANGED user

\* the click is in the AddMark of a pending device: the modal opens (the
\* commands of its Init focus the name input and blink the cursor)
ClickAdd ==
  \E d \in DOMAIN pendingDevices :
     /\ Clicked(<< >>)
     /\ addDeviceModal' = [Show |-> TRUE, deviceID |-> d]
     /\ UNCHANGED ongoingUserAction

\* AddDeviceModel.Update: the click is in "save"
ModalSave ==
  /\ ~panicked
  /\ View = "main"
  /\ addDeviceModal.Show
  /\ UserInFlight + 1 <= MaxUserCmds
  /\ addDeviceModal' = [addDeviceModal EXCEPT !.Show = FALSE]
  /\ cmds' = cmds (+) SetToBag({PostDeviceConfig(addDeviceModal.deviceID,
                       MapGet(pendingDevices, addDeviceModal.deviceID, [Name |-> ""]).Name)})
  /\ UNCHANGED << daemon, msgs, initSeq, err, projection, history, version, panicked,
                  httpData, ongoingUserAction, call >>

\* AddDeviceModel.Update: the click is in "close", or the key is Esc
ModalClose ==
  /\ ~panicked
  /\ addDeviceModal.Show
  /\ addDeviceModal' = [addDeviceModal EXCEPT !.Show = FALSE]
  /\ UNCHANGED << daemon, cmds, msgs, initSeq, err, projection, history, version,
                  panicked, httpData, ongoingUserAction, call >>

\* the daemon's config with the pause flag of a folder set
WithPaused(config, folderID, paused) ==
  [config EXCEPT !.Folders =
     [i \in DOMAIN @ |-> IF @[i].ID = folderID THEN [@[i] EXCEPT !.Paused = paused]
                          ELSE @[i]]]

\* updateFolderPause: patchFolder fails, or the daemon patches the folder
updateFolderPauseRuns(c) ==
  /\ Running(c) /\ c.cmd = "updateFolderPause"
  /\ \/ /\ Finish(c, UserPostPutEndedMsg(ErrTransport, << "updateFolderPause: ", c.folder >>))
        /\ UNCHANGED daemon
     \/ /\ Authorized
        /\ Finish(c, UserPostPutEndedMsg(NoErr, << "updateFolderPause: ", c.folder >>))
        /\ dconfig' = WithPaused(dconfig, c.folder, c.paused)
        /\ UNCHANGED log
  /\ UNCHANGED << initSeq, err, projection, history, others >>

\* deletePendingDevice returns nil whatever the daemon answers
deletePendingDeviceRuns(c) ==
  /\ Running(c) /\ c.cmd = "deletePendingDevice"
  /\ cmds' = cmds (-) SetToBag({c})
  /\ UNCHANGED << daemon, msgs, initSeq, err, projection, history, others >>

\* the command of putConfig: the request fails and the error is the
\* message, or the daemon takes the config and the command returns nil
putConfigRuns(c) ==
  /\ Running(c) /\ c.cmd = "putConfig"
  /\ \/ /\ Finish(c, errMsg(ErrTransport))
        /\ UNCHANGED daemon
     \/ /\ Authorized
        /\ cmds' = cmds (-) SetToBag({c})
        /\ dconfig' = c.config
        /\ UNCHANGED << log, msgs >>
  /\ UNCHANGED << initSeq, err, projection, history, others >>

\* the daemon's config with a device added, or replaced when it has the ID
WithDevice(config, deviceID, name) ==
  IF \E i \in DOMAIN config.Devices : config.Devices[i].DeviceID = deviceID
  THEN [config EXCEPT !.Devices =
          [i \in DOMAIN @ |-> IF @[i].DeviceID = deviceID
                               THEN [@[i] EXCEPT !.Name = name] ELSE @[i]]]
  ELSE [config EXCEPT !.Devices = Append(@, [DeviceID |-> deviceID, Name |-> name])]

\* PostDeviceConfig: a failure is reported, a success returns nil
PostDeviceConfigRuns(c) ==
  /\ Running(c) /\ c.cmd = "PostDeviceConfig"
  /\ \/ /\ Finish(c, UserPostPutEndedMsg(ErrTransport, << >>))
        /\ UNCHANGED daemon
     \/ /\ Authorized
        /\ cmds' = cmds (-) SetToBag({c})
        /\ dconfig' = WithDevice(dconfig, c.device, c.name)
        /\ UNCHANGED << log, msgs >>
  /\ UNCHANGED << initSeq, err, projection, history, others >>

\* case UserPostPutEndedMsg
UpdateUserPostPutEndedMsg(msg) ==
  /\ BagIn(msg, msgs) /\ msg.type = "UserPostPutEndedMsg"
  /\ err' = msg.err
  /\ ongoingUserAction' = FALSE
  /\ Handled(msg, << >>)
  /\ UNCHANGED << daemon, initSeq, projection, history, version, panicked, httpData,
                  addDeviceModal, call >>

\* case errMsg
UpdateErrMsg(msg) ==
  /\ BagIn(msg, msgs) /\ msg.type = "errMsg"
  /\ err' = msg.err
  /\ Handled(msg, << >>)
  /\ UNCHANGED << daemon, initSeq, projection, history, others >>

PauseRuns       == \E c \in BagToSet(cmds) : updateFolderPauseRuns(c)
DismissRuns     == \E c \in BagToSet(cmds) : deletePendingDeviceRuns(c)
IgnoreRuns      == \E c \in BagToSet(cmds) : putConfigRuns(c)
AddRuns         == \E c \in BagToSet(cmds) : PostDeviceConfigRuns(c)
HandleUserEnded == \E msg \in BagToSet(msgs) : UpdateUserPostPutEndedMsg(msg)
HandleErrMsg    == \E msg \in BagToSet(msgs) : UpdateErrMsg(msg)

\* Init's sequence, the pending devices and the polls of the event log,
\* and the user clicking
NextUser ==
  \/ PollReturns
  \/ PollFails
  \/ HandleEvents
  \/ RetryDelayElapses
  \/ StatusRuns
  \/ HandleStatus
  \/ ConfigRuns
  \/ HandleConfig
  \/ PendingRuns
  \/ HandlePending
  \/ ClickPauseAll
  \/ ClickResumeAll
  \/ ClickTogglePause
  \/ ClickDismiss
  \/ ClickIgnore
  \/ ClickAdd
  \/ ModalSave
  \/ ModalClose
  \/ PauseRuns
  \/ DismissRuns
  \/ IgnoreRuns
  \/ AddRuns
  \/ HandleUserEnded
  \/ HandleErrMsg

\* the daemon holds two folders, one of them paused
InitUser == NewModelAgainst(SYNCTHING_API_KEY, CfgB)

SpecUser == InitUser /\ [][NextUser]_vars

\* ------------- the apply operations of the projection store ------------
\* a third configuration: folder f1 and device d1 are gone
CfgC == [Folders |-> << [ID |-> "f2", Label |-> "two", Paused |-> FALSE,
                        Type |-> "sendreceive", Devices |-> << "d0" >>] >>,
         Devices |-> << [DeviceID |-> "d0", Name |-> "self"] >>,
         Options |-> [MaxSendKbps |-> 0, MaxRecvKbps |-> 0]]
\* a fourth configuration: folder f1 is no longer shared with device d1
CfgD == [Folders |-> << [ID |-> "f1", Label |-> "one", Paused |-> FALSE,
                        Type |-> "sendreceive", Devices |-> << "d0" >>] >>,
         Devices |-> << [DeviceID |-> "d0", Name |-> "self"],
                        [DeviceID |-> "d1", Name |-> "peer"] >>,
         Options |-> [MaxSendKbps |-> 0, MaxRecvKbps |-> 0]]
PendingB == [DeviceID |-> "pB", Name |-> "B", Address |-> "addrB"]

\* the event fetchEvents decodes from a well-formed payload of the type
Decoded(type, val) ==
  parseEvent([ID |-> 2, Time |-> 2, Type |-> type, Data |-> Raw(val, TRUE)], NoErr).out[1]

\* a delta: an event of a batch, or the result of a snapshot fetch
EventDelta(e)                     == [kind |-> "event", event |-> e]
FolderStatusDelta(id, status)     == [kind |-> "folderStatus", id |-> id, status |-> status]
CompletionDelta(d, f, completion) ==
  [kind |-> "completion", deviceID |-> d, folderID |-> f, completion |-> completion]
ConfigDelta(config)               == [kind |-> "config", config |-> config]
PendingDelta(ds)                  == [kind |-> "pending", devices |-> ds]

EventDeltas ==
  {EventDelta(Decoded("FolderSummary", [Folder |-> "f1", Summary |-> SummaryIdle])),
   EventDelta(Decoded("FolderSummary", [Folder |-> "f2", Summary |-> SummaryScanning])),
   EventDelta(Decoded("ConfigSaved", CfgB)),
   EventDelta(Decoded("ConfigSaved", CfgC)),
   EventDelta(Decoded("FolderScanProgress", [Folder |-> "f1", Current |-> 1, Total |-> 2])),
   EventDelta(Decoded("StateChanged", [Folder |-> "f1", From |-> "idle", To |-> "scanning"])),
   EventDelta(Decoded("FolderCompletion", CompletionD1)),
   EventDelta(Decoded("PendingDevicesChanged", [Added |-> << PendingA >>, Removed |-> << >>])),
   EventDelta(Decoded("PendingDevicesChanged", [Added |-> << PendingB >>, Removed |-> << >>])),
   EventDelta(Decoded("PendingDevicesChanged",
                      [Added |-> << >>, Removed |-> << [DeviceID |-> "pA"] >>])),
   EventDelta(Decoded("PendingDevicesChanged",
                      [Added |-> << PendingA >>, Removed |-> << [DeviceID |-> "pB"] >>]))}
\* the last one is what a failed fetch delivers: no id, no status
FolderStatusDeltas ==
  {FolderStatusDelta("f1", SummaryScanning), FolderStatusDelta("f1", EmptyFolderStatus),
   FolderStatusDelta("", EmptyFolderStatus)}
CompletionDeltas ==
  {CompletionDelta("d1", "f1", ZeroCompletion),
   CompletionDelta("d1", "f2", completionOfEvent(CompletionD1))}
ConfigDeltas == {ConfigDelta(CfgA), ConfigDelta(CfgC)}
PendingDeltas == {PendingDelta(ds) : ds \in PendingAnswers}

\* the model fields the apply operations work on
Store ==
  [folders |-> folders, devices |-> devices, pendingDevices |-> pendingDevices,
   putConfig |-> putConfig, cmds |-> << >>, seen |-> << >>]

\* the merge of a config snapshot: the three assignments of case FetchedConfig
applyConfig(st, config, thisDeviceID) ==
  [st EXCEPT !.putConfig = createPutConfig(config),
             !.folders = updateFolderViewModelConfigs(config, @, thisDeviceID),
             !.devices = updateDeviceViewModelConfigs(config, @, thisDeviceID)]

applyDelta(st, delta, thisDeviceID) ==
  CASE delta.kind = "event" -> applyEvent(st, delta.event, thisDeviceID)
    [] delta.kind = "folderStatus" ->
         [st EXCEPT !.folders = updateFolderStatus(@, delta.id, delta.status)]
    [] delta.kind = "completion" ->
         [st EXCEPT !.devices = updateDeviceStatusCompletion(@, delta.deviceID,
                                                             delta.folderID, delta.completion)]
    [] delta.kind = "config" -> applyConfig(st, delta.config, thisDeviceID)
    [] delta.kind = "pending" ->
         [st EXCEPT !.pendingDevices = putPendingDevices(@, delta.devices)]
    [] delta.kind = "folderStats" ->
         [st EXCEPT !.folders = updateFolderStats(@, delta.folderStats)]
    [] delta.kind = "deviceStats" ->
         [st EXCEPT !.devices = updateDeviceExtraStats(@, delta.deviceStats)]
    [] delta.kind = "connections" ->
         [st EXCEPT !.devices = updateDeviceConnections(@, delta.prevConnections,
                                                        delta.connections)]

\* one apply operation on the store; call remembers the operation, its
\* input and the store it was applied to
Apply(delta) ==
  /\ LET st == applyDelta(Store, delta, thisDeviceStatus.ID)
     IN /\ folders' = st.folders
        /\ devices' = st.devices
        /\ pendingDevices' = st.pendingDevices
        /\ putConfig' = st.putConfig
  /\ call' = [fn |-> "apply", arg |-> delta, before |-> Store]
  /\ UNCHANGED << daemon, cmds, msgs, initSeq, err, thisDeviceStatus, history,
                  version, panicked, httpData, user >>

ApplyEvent        == \E delta \in EventDeltas : Apply(delta)
ApplyFolderStatus == \E delta \in FolderStatusDeltas : Apply(delta)
ApplyCompletion   == \E delta \in CompletionDeltas : Apply(delta)
ApplyConfig       == \E delta \in ConfigDeltas : Apply(delta)
ApplyPending      == \E delta \in PendingDeltas : Apply(delta)

\* the client knows the ID of this device, or does not know it yet
InitApply ==
  /\ log = StartupLog
  /\ dconfig = CfgA
  /\ cmds = EmptyBag
  /\ msgs = EmptyBag
  /\ initSeq = 0
  /\ err = NoErr
  /\ thisDeviceStatus \in {ZeroDeviceStatus, [ZeroDeviceStatus EXCEPT !.ID = MyID]}
  /\ folders = << >>
  /\ devices = << >>
  /\ pendingDevices = EmptyMap
  /\ putConfig = NoConfig
  /\ applied = << >>
  /\ firstTip = 0
  /\ version = NoVersion
  /\ panicked = FALSE
  /\ httpData = [apiKey |-> SYNCTHING_API_KEY]
  /\ ongoingUserAction = FALSE
  /\ addDeviceModal = NoModal
  /\ call = NoCall

NextApply ==
  \/ ApplyEvent
  \/ ApplyFolderStatus
  \/ ApplyCompletion
  \/ ApplyConfig
  \/ ApplyPending

\* the apply operations on deltas arriving in any order
SpecApply == InitApply /\ [][NextApply]_vars

\* --------------------- config merges among deltas ----------------------
\* config snapshots and a config-saved event, and the deltas that write
\* the other fields of a folder and of a device
MergeDeltas ==
  {ConfigDelta(CfgA), ConfigDelta(CfgB), EventDelta(Decoded("ConfigSaved", CfgC)),
   ConfigDelta(CfgD),
   FolderStatusDelta("f1", SummaryScanning),
   EventDelta(Decoded("FolderScanProgress", [Folder |-> "f1", Current |-> 1, Total |-> 2])),
   [kind |-> "folderStats", folderStats |-> FolderStatsNow],
   [kind |-> "deviceStats", deviceStats |-> DeviceStatsNow],
   [kind |-> "connections", prevConnections |-> ConnectionsAt(1),
    connections |-> ConnectionsAt(2)],
   CompletionDelta("d1", "f1", completionOfEvent(CompletionD1))}

ApplyMergeDelta == \E delta \in MergeDeltas : Apply(delta)

NextMerge == ApplyMergeDelta

SpecMerge == InitApply /\ [][NextMerge]_vars

\* ----------------------- one batch of events ---------------------------
\* the events a batch is made of: two summaries of a folder, a saved
\* configuration, scan progress and a state change
BatchEvents ==
  {Decoded("FolderSummary", [Folder |-> "f1", Summary |-> SummaryIdle]),
   Decoded("FolderSummary", [Folder |-> "f1", Summary |-> SummaryScanning]),
   Decoded("ConfigSaved", CfgB),
   Decoded("FolderScanProgress", [Folder |-> "f1", Current |-> 1, Total |-> 2]),
   Decoded("StateChanged", [Folder |-> "f1", From |-> "idle", To |-> "scanning"])}

Batches == UNION {[1..n -> BatchEvents] : n \in 0..MaxBatch}

\* case FetchedEventsMsg on a batch that is not the first response
ApplyBatch ==
  \E events \in Batches :
     /\ LET st == applyEvents(Store, events, thisDeviceStatus.ID)
        IN /\ folders' = st.folders
           /\ devices' = st.devices
           /\ pendingDevices' = st.pendingDevices
           /\ putConfig' = st.putConfig
     /\ call' = [fn |-> "applyEvents", arg |-> events, before |-> Store]
     /\ UNCHANGED << daemon, cmds, msgs, initSeq, err, thisDeviceStatus, history,
                     version, panicked, httpData, user >>

NextBatch == ApplyBatch

\* batches of events handled one after the other
SpecBatch == InitApply /\ [][NextBatch]_vars

\* ------------------- the status shown for a folder ---------------------
\* mutant of folderStatus: paused is looked at before the error strings
folderStatusPausedFirst(folder) ==
  IF folder.Status.State = "syncing" THEN "Syncing"
  ELSE IF folder.Status.State = "sync-preparing" THEN "SyncPrepare"
  ELSE IF folder.Status.State = "scanning" THEN "Scanning"
  ELSE IF folder.Config.Paused THEN "Paused"
  ELSE IF folder.Status.Invalid # "" \/ folder.Status.Error # "" THEN "Error"
  ELSE IF Len(folder.Config.Devices) = 1 THEN "Unshared"
  ELSE IF folder.Status.NeedTotalItems > 0 THEN "OutOfSync"
  ELSE IF /\ folder.Config.Type \in {"receiveonly", "receiveencrypted"}
          /\ folder.Status.ReceiveOnlyTotalItems > 0
       THEN IF folder.Config.Type = "receiveonly"
            THEN "LocalAdditions" ELSE "LocalUnencrypted"
  ELSE IF folder.Status.State = "idle" THEN "Idle"
  ELSE "Unknown"

\* the FolderStatus constants, by name
folderStatus(folder) ==
  IF folder.Status.State = "syncing" THEN "Syncing"
  ELSE IF folder.Status.State = "sync-preparing" THEN "SyncPrepare"
  ELSE IF folder.Status.State = "scanning" THEN "Scanning"
  ELSE IF Len(folder.Status.Invalid) > 0 \/ Len(folder.Status.Error) > 0 THEN "Error"
  ELSE IF folder.Config.Paused THEN "Paused"
  ELSE IF Len(folder.Config.Devices) = 1 THEN "Unshared"
  ELSE IF folder.Status.NeedTotalItems > 0 THEN "OutOfSync"
  ELSE IF /\ \/ folder.Config.Type = "receiveonly"
             \/ folder.Config.Type = "receiveencrypted"
          /\ folder.Status.ReceiveOnlyTotalItems > 0
       THEN IF folder.Config.Type = "receiveonly"
            THEN "LocalAdditions" ELSE "LocalUnencrypted"
  ELSE IF folder.Status.State = "idle" THEN "Idle"
  ELSE "Unknown"

\* the folders a view can be asked to show: every combination of the
\* fields folderStatus reads
FolderInputs ==
  {NewFolderViewModelWith(
      [ID |-> "f1", Label |-> "one", Paused |-> paused, Type |-> type,
       Devices |-> folderDevices],
      [State |-> state, NeedTotalItems |-> need, Invalid |-> invalid,
       Error |-> error, ReceiveOnlyTotalItems |-> receiveOnly]) :
     paused \in BOOLEAN,
     type \in {"sendreceive", "receiveonly", "receiveencrypted"},
     folderDevices \in {<< >>, << "d0" >>, << "d0", "d1" >>},
     state \in {"syncing", "sync-preparing", "scanning", "idle", "error", ""},
     need \in {0, 1},
     invalid \in {"", "bad path"},
     error \in {"", "disk full"},
     receiveOnly \in {0, 1}}

\* the view asks for the status of a folder of the list
ViewFolderStatus ==
  /\ \E i \in DOMAIN folders :
        call' = [fn |-> "folderStatus", arg |-> folders[i],
                 ret |-> folderStatus(folders[i])]
  /\ UNCHANGED << projection, daemon, cmds, msgs, initSeq, err, thisDeviceStatus,
                  history, version, panicked, httpData, user >>

\* a folder list holding one folder in any state
InitStatus ==
  /\ log = StartupLog
  /\ dconfig = CfgA
  /\ cmds = EmptyBag
  /\ msgs = EmptyBag
  /\ initSeq = 0
  /\ err = NoErr
  /\ thisDeviceStatus = [ZeroDeviceStatus EXCEPT !.ID = MyID]
  /\ folders \in {<< folder >> : folder \in FolderInputs}
  /\ devices = << >>
  /\ pendingDevices = EmptyMap
  /\ putConfig = NoConfig
  /\ applied = << >>
  /\ firstTip = 0
  /\ version = NoVersion
  /\ panicked = FALSE
  /\ httpData = [apiKey |-> SYNCTHING_API_KEY]
  /\ ongoingUserAction = FALSE
  /\ addDeviceModal = NoModal
  /\ call = NoCall

NextStatus == ViewFolderStatus

\* folderStatus on every folder input
SpecStatus == InitStatus /\ [][NextStatus]_vars

\* ------------------- the status shown for a device ---------------------
\* a float64: a number, or what a division by zero leaves
Float(n) == [kind |-> "num", val |-> n]
NaN      == [kind |-> "NaN", val |-> 0]
PosInf   == [kind |-> "+Inf", val |-> 0]
NegInf   == [kind |-> "-Inf", val |-> 0]

\* the sum of one counter over the entries of a completion map
RECURSIVE SumOver(_, _, _)
SumOver(arg, keys, field) ==
  IF keys = {} THEN 0
  ELSE LET k == CHOOSE x \in keys : TRUE
       IN arg[k][field] + SumOver(arg, keys \ {k}, field)

\* math.Floor(100 * (1.0 - need/total)) in float64: need/total is NaN for
\* 0/0 and an infinity for x/0, and both pass through 1.0 - x and Floor
completionPercent(need, total) ==
  IF total = 0
  THEN IF need = 0 THEN NaN ELSE IF need > 0 THEN NegInf ELSE PosInf
  ELSE IF total > 0 THEN Float((100 * (total - need)) \div total)
       ELSE Float((100 * (need - total)) \div (0 - total))

\* mutant of groupCompletion: the percentage is an integer division
groupCompletionIntegerDivision(arg) ==
  LET need  == SumOver(arg, DOMAIN arg, "NeedBytes")
      total == SumOver(arg, DOMAIN arg, "GlobalBytes")
  IN [NeedBytes |-> need,
      NeedItems |-> SumOver(arg, DOMAIN arg, "NeedItems"),
      NeedDeletes |-> SumOver(arg, DOMAIN arg, "NeedDeletes"),
      TotalBytes |-> total,
      Completion |-> IF total = 0 THEN [kind |-> "panic", val |-> 0]
                     ELSE completionPercent(need, total)]

\* mutant of groupCompletion: the needed bytes are not summed
groupCompletionWithoutNeed(arg) ==
  LET total == SumOver(arg, DOMAIN arg, "GlobalBytes")
  IN [NeedBytes |-> 0,
      NeedItems |-> 0,
      NeedDeletes |-> 0,
      TotalBytes |-> total,
      Completion |-> completionPercent(0, total)]

groupCompletion(arg) ==
  LET need  == SumOver(arg, DOMAIN arg, "NeedBytes")
      total == SumOver(arg, DOMAIN arg, "GlobalBytes")
  IN [NeedBytes |-> need,
      NeedItems |-> SumOver(arg, DOMAIN arg, "NeedItems"),
      NeedDeletes |-> SumOver(arg, DOMAIN arg, "NeedDeletes"),
      TotalBytes |-> total,
      Completion |-> completionPercent(need, total)]

\* mutant of deviceStatus: paused is looked at before the connection record
deviceStatusPausedFirst(device, currentTime) ==
  LET isUnused == Len(device.Folders) = 0 IN
  IF device.Config.Paused
  THEN IF isUnused THEN "DeviceUnusedPaused" ELSE "DevicePaused"
  ELSE IF ~device.Connection[1] THEN "DeviceUnknown"
  ELSE IF device.Connection[2].Connected
  THEN LET insync == IF isUnused THEN "DeviceUnusedInSync" ELSE "DeviceInSync"
           groupedCompletion == groupCompletion(device.StatusCompletion)
           needsSomething == \/ groupedCompletion.NeedBytes # 0
                             \/ groupedCompletion.NeedItems # 0
                             \/ groupedCompletion.NeedDeletes # 0
       IN IF groupedCompletion.Completion = Float(100) \/ ~needsSomething
          THEN insync ELSE "DeviceSyncing"
  ELSE IF ~isUnused
          /\ currentTime - device.ExtraStats.LastSeen > 7 * 24 * 3600 * 1000
       THEN "DeviceDisconnectedInactive"
       ELSE IF isUnused THEN "DeviceUnusedDisconnected" ELSE "DeviceDisconnected"

\* the DeviceStatus constants, by name; times in milliseconds
deviceStatus(device, currentTime) ==
  LET isUnused == Len(device.Folders) = 0 IN
  IF ~device.Connection[1] THEN "DeviceUnknown"
  ELSE IF device.Config.Paused
  THEN IF isUnused THEN "DeviceUnusedPaused" ELSE "DevicePaused"
  ELSE IF device.Connection[2].Connected
  THEN LET insync == IF isUnused THEN "DeviceUnusedInSync" ELSE "DeviceInSync"
           groupedCompletion == groupCompletion(device.StatusCompletion)
           needsSomething == \/ groupedCompletion.NeedBytes # 0
                             \/ groupedCompletion.NeedItems # 0
                             \/ groupedCompletion.NeedDeletes # 0
       IN IF groupedCompletion.Completion = Float(100) \/ ~needsSomething
          THEN insync ELSE "DeviceSyncing"
  ELSE LET lastSeenOver7Days ==
             currentTime - device.ExtraStats.LastSeen > 7 * 24 * 3600 * 1000
       IN IF ~isUnused /\ lastSeenOver7Days
          THEN "DeviceDisconnectedInactive"
          ELSE IF isUnused THEN "DeviceUnusedDisconnected" ELSE "DeviceDisconnected"

\* per-folder completion entries the daemon reports: nothing known, in
\* sync, behind, only deletions needed, only empty files needed
CompletionEntries ==
  {ZeroCompletion,
   [ZeroCompletion EXCEPT !.Completion = 100, !.GlobalBytes = 8, !.GlobalItems = 2],
   completionOfEvent(CompletionD1),
   [ZeroCompletion EXCEPT !.Completion = 95, !.NeedDeletes = 1],
   [ZeroCompletion EXCEPT !.GlobalItems = 1, !.NeedItems = 1]}
CompletionMaps ==
  UNION {[keys -> CompletionEntries] : keys \in SUBSET {"f1", "f2"}}

\* the devices a view can be asked to show: every combination of the
\* fields deviceStatus reads
DeviceInputs ==
  {[NewDeviceViewModel([DeviceID |-> "d1", Name |-> "peer", Paused |-> paused],
                       deviceFolders)
      EXCEPT !.Connection = << known, [EmptyConnection EXCEPT !.Connected = connected] >>,
             !.StatusCompletion = completions] :
     paused \in BOOLEAN,
     deviceFolders \in {<< >>, << << "f1", "one" >> >>},
     known \in BOOLEAN,
     connected \in BOOLEAN,
     completions \in CompletionMaps}

\* the clock of the view: seven days after the device was last seen, one
\* millisecond later, and a day later
ViewTimes == {7 * 24 * 3600 * 1000, 7 * 24 * 3600 * 1000 + 1, 8 * 24 * 3600 * 1000}

\* the view asks for the status of a device of the list
ViewDeviceStatus ==
  /\ \E i \in DOMAIN devices, currentTime \in ViewTimes :
        call' = [fn |-> "deviceStatus", arg |-> devices[i], now |-> currentTime,
                 ret |-> deviceStatus(devices[i], currentTime)]
  /\ UNCHANGED << projection, daemon, cmds, msgs, initSeq, err, thisDeviceStatus,
                  history, version, panicked, httpData, user >>

\* a device list holding one device in any state
InitDevice ==
  /\ log = StartupLog
  /\ dconfig = CfgA
  /\ cmds = EmptyBag
  /\ msgs = EmptyBag
  /\ initSeq = 0
  /\ err = NoErr
  /\ thisDeviceStatus = [ZeroDeviceStatus EXCEPT !.ID = MyID]
  /\ folders = << >>
  /\ devices \in {<< device >> : device \in DeviceInputs}
  /\ pendingDevices = EmptyMap
  /\ putConfig = NoConfig
  /\ applied = << >>
  /\ firstTip = 0
  /\ version = NoVersion
  /\ panicked = FALSE
  /\ httpData = [apiKey |-> SYNCTHING_API_KEY]
  /\ ongoingUserAction = FALSE
  /\ addDeviceModal = NoModal
  /\ call = NoCall

NextDevice == ViewDeviceStatus

\* deviceStatus on every device input
SpecDevice == InitDevice /\ [][NextDevice]_vars

\* -------------------- the throughput between samples -------------------
\* byte counters and sample times (milliseconds) of two samples: a counter
\* not yet known, the clock standing still, moving by less and by more
\* than a second, and the later sample carrying the earlier time
SampleBytes == {0, 1000, 3000}
SampleTimes == {0, 999, 1000, 2000, 2500}

\* the rate between two samples is computed
ComputeThroughput ==
  /\ \E beforeBytes \in SampleBytes, afterBytes \in SampleBytes,
        beforeAt \in SampleTimes, afterAt \in SampleTimes :
        LET before == [bytes |-> beforeBytes, at |-> beforeAt]
            after  == [bytes |-> afterBytes, at |-> afterAt]
        IN call' = [fn |-> "byteThroughputInSeconds", before |-> before, after |-> after,
                    ret |-> byteThroughputInSeconds(before, after)]
  /\ UNCHANGED << projection, daemon, cmds, msgs, initSeq, err, thisDeviceStatus,
                  history, version, panicked, httpData, user >>

NextRate == ComputeThroughput

\* byteThroughputInSeconds on every pair of samples
SpecRate == InitApply /\ [][NextRate]_vars

\* ------------------------- observation helpers -------------------------
PollCmdsOf(b) == {c \in BagToSet(b) : c.cmd = "fetchEvents"}
PollCmds      == PollCmdsOf(cmds)
EventMsgs     == {m \in BagToSet(msgs) : m.type = "FetchedEventsMsg"}
\* the step hands message m to Update / a command puts message m in the queue
Consumed(m)   == CopiesIn(m, msgs') < CopiesIn(m, msgs)
Delivered(m)  == CopiesIn(m, msgs') > CopiesIn(m, msgs)
NewEventMsgs  == {m \in BagToSet(msgs') : m.type = "FetchedEventsMsg" /\ Delivered(m)}
Issued(c)     == CopiesIn(c, cmds') > CopiesIn(c, cmds)

IDsOf(events) == [i \in DOMAIN events |-> events[i].ID]
AppliedIDs    == UNION {SeqToSet(applied[i].ids) : i \in DOMAIN applied}
MaxApplied    == IF AppliedIDs = {} THEN 0
                 ELSE CHOOSE n \in AppliedIDs : \A k \in AppliedIDs : k <= n
\* the decoder has a value for the event: unknown tag, or well-formed payload
Decodable(e)  == e.Type \notin KnownTypes \/ e.Data.wellFormed
Opaque(e)     == [ID |-> e.ID, Time |-> e.Time, Type |-> e.Type,
                  Data |-> [variant |-> "RawMessage", val |-> e.Data]]

\* ------------------------------- claims --------------------------------

\* C1: every event poll in flight or scheduled carries a since that is at
\* least the highest event ID already applied (the cursor never moves back).
C1_SinceNotBelowApplied ==
  \A c \in PollCmds : c.since >= MaxApplied

\* C2: when the response to a poll with cursor c is an empty batch, the next
\* poll is issued at once with the same cursor c.
C2_EmptyBatchKeepsCursor ==
  [][\A m \in EventMsgs :
       (Consumed(m) /\ m.err = NoErr /\ m.events = << >> /\ Len(log) <= m.since)
       => PollCmds' = {fetchEvents(m.since)}]_vars

\* C3: after a non-empty response, the cursor of the next poll is the ID of
\* the last event of the batch as the daemon sent it.
C3_CursorIsLastReceivedID ==
  [][/\ \A m \in NewEventMsgs :
          (m.err # ErrTransport /\ EventsSince(m.since) # << >>)
          => /\ m.err = NoErr
             /\ m.events # << >>
             /\ Last(m.events).ID = Last(EventsSince(m.since)).ID
     /\ \A m \in EventMsgs :
          (Consumed(m) /\ m.err = NoErr /\ m.events # << >>)
          => PollCmds' = {fetchEvents(Last(m.events).ID)}]_vars

\* C4: a poll with cursor c that fails with a transport error applies no
\* event and changes nothing in the projection; the one poll left is for the
\* same cursor c and runs only after the whole retry delay has elapsed.
C4_FailedPollRetriesSameCursorAfterDelay ==
  [][/\ \A m \in EventMsgs :
          (Consumed(m) /\ m.err = ErrTransport)
          => /\ applied' = applied /\ firstTip' = firstTip
             /\ projection' = projection
             /\ RETRY_DELAY > 0
             /\ PollCmds' = {[fetchEvents(m.since) EXCEPT !.wait = RETRY_DELAY]}
     /\ \A c \in PollCmds :
          c.wait > 0 => PollCmds' \subseteq {c, [c EXCEPT !.wait = c.wait - 1]}]_vars

\* C4 witness: a retry of a poll with a cursor above 0 is waiting for its
\* delay, after events have been applied
C4_Witness ==
  /\ applied # << >>
  /\ err = ErrTransport
  /\ \E c \in PollCmds : c.wait = RETRY_DELAY /\ c.since = MaxApplied

C6_NoGapAboveTip ==
  \A c \in PollCmds :
    firstTip > 0 =>
      \A id \in (firstTip + 1)..c.since :
        id \in AppliedIDs \/ ~Decodable(log[id])

\* C7: when a payload of a batch fails to parse, the message still carries
\* every other event of the batch and Update applies all of them.
C7_OnlyMalformedEventSkipped ==
  [][/\ \A m \in NewEventMsgs :
          m.err # ErrTransport
          => IDsOf(m.events) = IDsOf(SelectSeq(EventsSince(m.since), Decodable))
     /\ \A m \in EventMsgs :
          (Consumed(m) /\ m.since # 0 /\ m.events # << >>)
          => applied' = Append(applied, [since |-> m.since, ids |-> IDsOf(m.events)])]_vars

\* C8: a response with a payload that fails to parse is not a failed poll:
\* it carries no error, and the cursor it yields is at or above the ID of
\* the skipped event.
C8_ParseFailureAdvancesCursor ==
  [][\A m \in NewEventMsgs :
       (m.err # ErrTransport)
       => \A i \in DOMAIN EventsSince(m.since) :
            ~Decodable(EventsSince(m.since)[i])
            => /\ m.err = NoErr
               /\ m.events # << >>
               /\ Last(m.events).ID >= EventsSince(m.since)[i].ID]_vars

\* C9: an event with an unknown type tag is decoded, without error, into an
\* opaque variant that carries the raw payload; Update iterates the whole
\* batch and the projection it leaves is the one the known events of the
\* batch alone produce.
C9_UnknownTypeIsOpaque ==
  [][/\ \A m \in NewEventMsgs :
          m.err # ErrTransport
          => LET batch == EventsSince(m.since)
             IN /\ \A i \in DOMAIN batch :
                     batch[i].Type \notin KnownTypes
                     => \E j \in DOMAIN m.events : m.events[j] = Opaque(batch[i])
                /\ (\A i \in DOMAIN batch : Decodable(batch[i])) => m.err = NoErr
     /\ \A m \in EventMsgs :
          (Consumed(m) /\ m.err = NoErr /\ m.since # 0 /\ m.events # << >>)
          => LET known == SelectSeq(m.events, LAMBDA e : e.Type \in KnownTypes)
                 st == applyEvents([folders |-> folders, devices |-> devices,
                                    pendingDevices |-> pendingDevices,
                                    putConfig |-> putConfig,
                                    cmds |-> << >>, seen |-> << >>],
                                   known, thisDeviceStatus.ID)
             IN /\ folders' = st.folders
                /\ devices' = st.devices
                /\ pendingDevices' = st.pendingDevices
                /\ putConfig' = st.putConfig
                /\ Last(applied').ids = IDsOf(m.events)]_vars

\* C9 witness: one batch held an unknown event followed by a pending-device
\* event, and another the two in the opposite order or an unknown event alone
C9_Witness ==
  \E i \in DOMAIN applied :
    \E k \in 1..(Len(applied[i].ids) - 1) :
      /\ log[applied[i].ids[k]].Type \notin KnownTypes
      /\ log[applied[i].ids[k + 1]].Type = "PendingDevicesChanged"
      /\ "pA" \in DOMAIN pendingDevices

\* C10: once Init's sequence has started the poll, there is always exactly
\* one poll: running, waiting for its retry delay, or answered with the
\* answer waiting for Update; handling any answer leaves a poll behind.
C10_PollNeverStops ==
  /\ [](initSeq = 2 => Cardinality(PollCmds) + Cardinality(EventMsgs) >= 1)
  /\ [][\A m \in EventMsgs : Consumed(m) => PollCmds' # {}]_vars

\* C10 witness: after a batch was applied and a later poll failed, the retry
\* has been issued and is running
C10_Witness ==
  /\ applied # << >>
  /\ err = ErrTransport
  /\ \E c \in PollCmds : c.wait = 0 /\ c.since = MaxApplied /\ c.since > 0
  /\ EventMsgs = {}

\* the step ends command c: the function it runs has returned
Finished(c)   == c.wait = 0 /\ CopiesIn(c, cmds') < CopiesIn(c, cmds)
ConnCmdsOf(b) == {c \in BagToSet(b) : c.cmd = "fetchSystemConnections"}
ConnMsgs      == {m \in BagToSet(msgs) : m.type = "FetchedSystemConnectionsMsg"}

\* C11: no fetch failure ends the process: the process never panics, a
\* fetch that returns leaves a message for Update, and Update handles every
\* message that carries an error by recording it in model.err.
C11_FetchFailureRecorded ==
  /\ [](~panicked)
  /\ [][/\ \A m \in BagToSet(msgs) :
            (Consumed(m) /\ m.err # NoErr) => (err' = m.err /\ ~panicked')
        /\ (\E c \in BagToSet(cmds) : Finished(c))
             => (\E m \in BagToSet(msgs') : Delivered(m))]_vars

\* C12: the connections loop never ends: once Init's batch has run there is
\* a connections fetch running, waiting or answered, and handling an
\* answer, successful or failed, schedules the next fetch after the
\* refresh interval.
C12_ConnectionsLoopNeverStops ==
  /\ [](initSeq = 2 => ConnCmdsOf(cmds) \cup ConnMsgs # {})
  /\ [][\A m \in ConnMsgs :
          Consumed(m)
          => \E c \in ConnCmdsOf(cmds') : c.wait = REFETCH_STATUS_INTERVAL]_vars

\* no status fetch for folder F is in flight
StatusFetchDone(F) ==
  ~\E c \in BagToSet(cmds) : c.cmd = "fetchFolderStatus" /\ c.folder = F

\* C13: when the completion lookup for (X, Y) answers 404 and an entry for
\* (X, Y) is stored, the entry is removed, no error is recorded and no other
\* completion entry changes.
C13_NotFoundRemovesCompletion ==
  [][\A m \in BagToSet(msgs) :
       (/\ Consumed(m) /\ m.type = "FetchedCompletion"
        /\ m.err = NoErr /\ ~m.hasCompletion
        /\ \E i \in DOMAIN devices :
              /\ devices[i].Config.DeviceID = m.deviceID
              /\ m.folderID \in DOMAIN devices[i].StatusCompletion)
       => /\ err' = err
          /\ DOMAIN devices' = DOMAIN devices
          /\ \A i \in DOMAIN devices :
                devices'[i].StatusCompletion =
                  IF devices[i].Config.DeviceID = m.deviceID
                  THEN MapDelete(devices[i].StatusCompletion, m.folderID)
                  ELSE devices[i].StatusCompletion]_vars

\* C14: when the status fetch of a folder F has failed, handling the failure
\* clears the stored status of F and changes no other folder; F is a folder
\* of the projection whose status fetch is not in flight any more.
C14_FailedStatusFetchClearsFolder ==
  [][\A m \in BagToSet(msgs) :
       (Consumed(m) /\ m.type = "FetchedFolderStatus" /\ m.err # NoErr)
       => \E i \in DOMAIN folders :
            /\ StatusFetchDone(folders[i].Config.ID)
            /\ folders' = [folders EXCEPT ![i].Status = EmptyFolderStatus]]_vars

\* event e reports scan progress of folder F / that F starts scanning
IsScanProgressOf(e, F) ==
  e.Data.variant = "FolderScanProgressEventData" /\ e.Data.val.Folder = F
IsScanStartOf(e, F) ==
  /\ e.Data.variant = "StateChangedEventData"
  /\ e.Data.val.Folder = F /\ e.Data.val.To = "scanning"
FolderIDs(fs) == {fs[i].Config.ID : i \in DOMAIN fs}
ScanProgressOf(fs, F) == {fs[i].ScanProgress : i \in {j \in DOMAIN fs : fs[j].Config.ID = F}}

\* C15: after a batch is applied in which folder F starts scanning and no
\* later event reports scan progress of F, the scan-progress counters of F
\* are cleared; cleared counters change only when a scan-progress event for
\* F is applied.
C15_ScanningClearsProgress ==
  [][/\ \A m \in EventMsgs :
          (Consumed(m) /\ m.err = NoErr /\ m.since # 0)
          => \A F \in FolderIDs(folders') :
               (\E i \in DOMAIN m.events :
                   /\ IsScanStartOf(m.events[i], F)
                   /\ \A j \in (i + 1)..Len(m.events) : ~IsScanProgressOf(m.events[j], F))
               => ScanProgressOf(folders', F) = {EmptyScanProgress}
     /\ \A F \in FolderIDs(folders) \cap FolderIDs(folders') :
          (/\ ScanProgressOf(folders, F) = {EmptyScanProgress}
           /\ ScanProgressOf(folders', F) # {EmptyScanProgress})
          => \E m \in EventMsgs :
               /\ Consumed(m)
               /\ \E i \in DOMAIN m.events : IsScanProgressOf(m.events[i], F)]_vars

DeviceIDs(ds) == {ds[i].Config.DeviceID : i \in DOMAIN ds}

\* the last apply operation merged a config: a snapshot or a saved event
IsConfigMerge(c) ==
  /\ c.fn = "apply"
  /\ \/ c.arg.kind = "config"
     \/ c.arg.kind = "event" /\ c.arg.event.Data.variant = "Config"
MergedConfig(c) ==
  IF c.arg.kind = "config" THEN c.arg.config ELSE c.arg.event.Data.val

\* C16: after a config merge (of a config snapshot or of a config-saved
\* event) the folder IDs of the projection are the folder IDs of that config
\* and the device IDs of the device list are the device IDs of the config
\* without the ID of this device; what the config does not name is gone.
C16_MergeKeepsConfigIDs ==
  IsConfigMerge(call) =>
    LET config == MergedConfig(call) IN
      /\ FolderIDs(folders) = {config.Folders[i].ID : i \in DOMAIN config.Folders}
      /\ DeviceIDs(devices) =
           {config.Devices[i].DeviceID : i \in DOMAIN config.Devices}
             \ {thisDeviceStatus.ID}

\* a merge removed folder f1 and device d1 and left this device out
C16_Witness ==
  /\ IsConfigMerge(call)
  /\ "f1" \in FolderIDs(call.before.folders) \ FolderIDs(folders)
  /\ "d1" \in DeviceIDs(call.before.devices) \ DeviceIDs(devices)
  /\ thisDeviceStatus.ID = MyID
  /\ \E i \in DOMAIN MergedConfig(call).Devices :
        MergedConfig(call).Devices[i].DeviceID = MyID

\* C17: whenever the client knows the ID of this device, no entry of the
\* device list has that ID.
C17_OwnDeviceNotListed ==
  thisDeviceStatus.ID # "" => thisDeviceStatus.ID \notin DeviceIDs(devices)

\* the last apply operation applied a pending-devices-changed event
IsPendingChange(c) ==
  /\ c.fn = "apply"
  /\ c.arg.kind = "event"
  /\ c.arg.event.Data.variant = "PendingDevicesChangedEventData"
NamedIDs(list) == {list[i].DeviceID : i \in DOMAIN list}

\* C18: after a pending-devices-changed event is applied, no device of its
\* removed list is in the pending-device set (also when an earlier event had
\* added it), and the entry of every device the event does not name is as it
\* was before.
C18_RemovedPendingIsGone ==
  IsPendingChange(call) =>
    LET data == call.arg.event.Data.val
        old  == call.before.pendingDevices
    IN /\ NamedIDs(data.Removed) \cap DOMAIN pendingDevices = {}
       /\ \A id \in (DOMAIN old \cup DOMAIN pendingDevices)
                       \ (NamedIDs(data.Added) \cup NamedIDs(data.Removed)) :
             /\ id \in DOMAIN old
             /\ id \in DOMAIN pendingDevices
             /\ pendingDevices[id] = old[id]

\* pA, added by an earlier event, is removed while pB stays as it was
C18_Witness ==
  /\ IsPendingChange(call)
  /\ "pA" \in NamedIDs(call.arg.event.Data.val.Removed)
  /\ {"pA", "pB"} \subseteq DOMAIN call.before.pendingDevices
  /\ DOMAIN pendingDevices = {"pB"}
  /\ pendingDevices["pB"] = call.before.pendingDevices["pB"]

\* the fields of a store that make up the projection
Projection(st) ==
  [folders |-> st.folders, devices |-> st.devices,
   pendingDevices |-> st.pendingDevices, putConfig |-> st.putConfig]

\* C19: every apply operation is idempotent: applying the delta that was
\* just applied (folder status, scan progress, completion, pending devices,
\* config) once more leaves the projection as it is.
C19_ApplyIsIdempotent ==
  call.fn = "apply" =>
    Projection(applyDelta(Store, call.arg, thisDeviceStatus.ID)) = Projection(Store)

\* a folder-status delta that changed the projection has been applied
C19_Witness ==
  /\ call.fn = "apply"
  /\ call.arg.kind = "folderStatus"
  /\ call.arg.status # EmptyFolderStatus
  /\ Projection(call.before) # Projection(Store)

\* C20: folderStatus returns the result of the first rule that matches, in
\* this order: state "syncing" -> Syncing; "sync-preparing" -> SyncPrepare;
\* "scanning" -> Scanning; a non-empty invalid or error string -> Error;
\* paused -> Paused; exactly one device -> Unshared; needed items > 0 ->
\* OutOfSync; receive-only (receive-encrypted) type with receive-only
\* changed items > 0 -> LocalAdditions (LocalUnencrypted); state "idle" ->
\* Idle; otherwise Unknown.  An idle, paused folder with an error is Error.
C20_FirstMatchingRuleWins ==
  call.fn = "folderStatus" =>
    LET folder == call.arg
        rules ==
          << << folder.Status.State = "syncing", "Syncing" >>,
             << folder.Status.State = "sync-preparing", "SyncPrepare" >>,
             << folder.Status.State = "scanning", "Scanning" >>,
             << folder.Status.Invalid # "" \/ folder.Status.Error # "", "Error" >>,
             << folder.Config.Paused, "Paused" >>,
             << Cardinality(DOMAIN folder.Config.Devices) = 1, "Unshared" >>,
             << folder.Status.NeedTotalItems > 0, "OutOfSync" >>,
             << folder.Config.Type = "receiveonly"
                  /\ folder.Status.ReceiveOnlyTotalItems > 0, "LocalAdditions" >>,
             << folder.Config.Type = "receiveencrypted"
                  /\ folder.Status.ReceiveOnlyTotalItems > 0, "LocalUnencrypted" >>,
             << folder.Status.State = "idle", "Idle" >>,
             << TRUE, "Unknown" >> >>
        first == CHOOSE i \in DOMAIN rules :
                   rules[i][1] /\ \A j \in 1..(i - 1) : ~rules[j][1]
    IN /\ call.ret = rules[first][2]
       /\ (folder.Status.State = "idle" /\ folder.Config.Paused
             /\ folder.Status.Error # "") => call.ret = "Error"

\* the status of an idle, paused folder with an error has been asked for
C20_Witness ==
  /\ call.fn = "folderStatus"
  /\ call.arg.Status.State = "idle"
  /\ call.arg.Config.Paused
  /\ call.arg.Status.Error # ""
  /\ call.ret = "Error"

\* the device whose status was asked for is known, not paused, connected
\* and shares a folder
IsConnectedUsed(c) ==
  /\ c.fn = "deviceStatus"
  /\ c.arg.Connection[1]
  /\ ~c.arg.Config.Paused
  /\ c.arg.Connection[2].Connected
  /\ Len(c.arg.Folders) > 0
NeedBytesOf(device) ==
  {device.StatusCompletion[f].NeedBytes : f \in DOMAIN device.StatusCompletion}

\* C21: a known, not paused, connected device that shares a folder and
\* whose completion entries all have 0 needed bytes is InSync.
C21_NoNeededBytesIsInSync ==
  (IsConnectedUsed(call) /\ NeedBytesOf(call.arg) \subseteq {0})
    => call.ret = "DeviceInSync"

C23_DeviceRulesInOrder ==
  call.fn = "deviceStatus" =>
    LET device == call.arg
        used   == Len(device.Folders) > 0
        over7  == call.now - device.ExtraStats.LastSeen > 7 * 24 * 3600 * 1000
    IN IF ~device.Connection[1] THEN call.ret = "DeviceUnknown"
       ELSE IF device.Config.Paused
       THEN call.ret = (IF used THEN "DevicePaused" ELSE "DeviceUnusedPaused")
       ELSE IF device.Connection[2].Connected
       THEN call.ret \in (IF used THEN {"DeviceInSync", "DeviceSyncing"}
                          ELSE {"DeviceUnusedInSync", "DeviceSyncing"})
       ELSE call.ret = (IF used /\ over7 THEN "DeviceDisconnectedInactive"
                        ELSE IF used THEN "DeviceDisconnected"
                        ELSE "DeviceUnusedDisconnected")

\* the status of a paused device that the last answer reported connected but
\* whose connection record is not known was asked for
C23_Witness ==
  /\ call.fn = "deviceStatus"
  /\ ~call.arg.Connection[1]
  /\ call.arg.Config.Paused
  /\ call.arg.Connection[2].Connected
  /\ call.ret = "DeviceUnknown"

\* the statuses deviceStatus can return
DeviceStatuses ==
  {"DeviceDisconnected", "DeviceDisconnectedInactive", "DeviceInSync", "DevicePaused",
   "DeviceUnusedDisconnected", "DeviceUnusedInSync", "DeviceUnusedPaused",
   "DeviceSyncing", "DeviceUnknown"}

\* C25: when the global bytes of a device's completion entries sum to 0
\* (an empty map included), groupCompletion yields a float64 (the division
\* does not crash) and deviceStatus returns one of its statuses.
C25_ZeroDenominatorTolerated ==
  (/\ call.fn = "deviceStatus"
   /\ SumOver(call.arg.StatusCompletion, DOMAIN call.arg.StatusCompletion,
              "GlobalBytes") = 0)
    => /\ groupCompletion(call.arg.StatusCompletion).Completion
            \in {NaN, PosInf, NegInf}
       /\ call.ret \in DeviceStatuses

\* the status of a connected device with an empty completion map was asked
\* for: the percentage is 0/0
C25_Witness ==
  /\ IsConnectedUsed(call)
  /\ call.arg.StatusCompletion = EmptyMap
  /\ groupCompletion(call.arg.StatusCompletion).Completion = NaN
  /\ call.ret = "DeviceInSync"

\* C24: the rate is 0 when the earlier counter is 0, 0 when the later sample
\* is less than one second after the earlier one, and otherwise the byte
\* difference divided by the elapsed whole seconds; 1000 bytes at T and 3000
\* bytes two seconds later give 1000.
C24_RateOfTwoSamples ==
  call.fn = "byteThroughputInSeconds" =>
    LET before  == call.before
        after   == call.after
        elapsed == after.at - before.at
    IN /\ call.ret = IF before.bytes = 0 THEN 0
                     ELSE IF elapsed < 1000 THEN 0
                     ELSE GoDiv(after.bytes - before.bytes, elapsed \div 1000)
       /\ (before.bytes = 1000 /\ after.bytes = 3000 /\ elapsed = 2000)
            => call.ret = 1000

\* the commands that send a request to the daemon
FetchCmds ==
  {"fetchEvents", "fetchSystemStatus", "fetchConfig", "fetchSystemConnections",
   "fetchSystemVersion", "fetchDeviceStats", "fetchFolderStats",
   "fetchPendingDevices", "fetchFolderStatus", "fetchCompletion"}

\* C26: while the API key is empty the view reports the missing key, and no
\* fetch is running against the daemon or scheduled to run after a delay.
C26_NoFetchWithoutKey ==
  httpData.apiKey = "" =>
    /\ View = "Missing api key to acess syncthing. Env: SYNCTHING_API_KEY"
    /\ \A c \in BagToSet(cmds) : c.cmd \notin FetchCmds

\* the events applied one at a time, each to the store the one before left
RECURSIVE OneByOne(_, _, _)
OneByOne(st, events, thisDeviceID) ==
  IF events = << >> THEN st
  ELSE OneByOne(applyEvent(st, Head(events), thisDeviceID), Tail(events), thisDeviceID)

IsSummaryOf(e, F) == e.Data.variant = "FolderSummaryEventData" /\ e.Data.val.Folder = F
SummariesOf(events, F) == {i \in DOMAIN events : IsSummaryOf(events[i], F)}
HasConfig(events) == \E i \in DOMAIN events : events[i].Data.variant = "Config"
StatusOf(fs, F) == {fs[i].Status : i \in {j \in DOMAIN fs : fs[j].Config.ID = F}}
Max(S) == CHOOSE x \in S : \A y \in S : y <= x

\* C27: the projection after a batch is the one its events give when applied
\* one by one in batch order; of the summaries a batch holds for a folder of
\* the list, the last one is the status stored.
C27_BatchAppliedInOrder ==
  call.fn = "applyEvents" =>
    /\ Projection(Store) =
         Projection(OneByOne(call.before, call.arg, thisDeviceStatus.ID))
    /\ \A F \in FolderIDs(call.before.folders) :
         (~HasConfig(call.arg) /\ SummariesOf(call.arg, F) # {}) =>
            StatusOf(folders, F) =
              {call.arg[Max(SummariesOf(call.arg, F))].Data.val.Summary}

\* a batch with two different summaries of folder f1, a folder of the list
C27_Witness ==
  /\ call.fn = "applyEvents"
  /\ "f1" \in FolderIDs(call.before.folders)
  /\ Len(call.arg) = 2
  /\ IsSummaryOf(call.arg[1], "f1") /\ IsSummaryOf(call.arg[2], "f1")
  /\ call.arg[1].Data.val.Summary # call.arg[2].Data.val.Summary
  /\ StatusOf(folders, "f1") = {call.arg[2].Data.val.Summary}

\* the call is a status write for folder F: the result of a folder-status
\* fetch or a folder-summary event naming F
IsStatusWrite(c, F) ==
  /\ c.fn = "apply"
  /\ \/ c.arg.kind = "folderStatus" /\ c.arg.id = F
     \/ c.arg.kind = "event" /\ IsSummaryOf(c.arg.event, F)
WrittenStatus(c) ==
  IF c.arg.kind = "folderStatus" THEN c.arg.status ELSE c.arg.event.Data.val.Summary

\* C28: a status write for a folder of the list stores its payload, whatever
\* was stored and whichever of fetch and event wrote it; any other delta
\* leaves the status of every folder that stays in the list as it was. So
\* the status stored is the payload of the last write handled.
C28_LastStatusWriteWins ==
  call.fn = "apply" =>
    \A F \in FolderIDs(call.before.folders) \cap FolderIDs(folders) :
       IF IsStatusWrite(call, F)
       THEN StatusOf(folders, F) = {WrittenStatus(call)}
       ELSE StatusOf(folders, F) = StatusOf(call.before.folders, F)

\* the result of a status fetch handled after a summary event had written
\* another status for the same folder
C28_Witness ==
  /\ call.fn = "apply" /\ call.arg.kind = "folderStatus" /\ call.arg.id = "f1"
  /\ StatusOf(call.before.folders, "f1") = {SummaryIdle}
  /\ call.arg.status = SummaryScanning
  /\ StatusOf(folders, "f1") = {SummaryScanning}

\* C29: handling a failed result leaves every other fetch as it was: the
\* commands in flight (running or waiting for their delay) stay in flight
\* and the results waiting for Update stay in its queue.
C29_FailureLeavesOthersInFlight ==
  [][\A m \in BagToSet(msgs) :
       (Consumed(m) /\ m.err # NoErr) =>
          /\ \A c \in BagToSet(cmds) : CopiesIn(c, cmds') >= CopiesIn(c, cmds)
          /\ \A n \in BagToSet(msgs) \ {m} : CopiesIn(n, msgs') >= CopiesIn(n, msgs)]_vars

\* C30: after a config merge every folder that was in the list and still is
\* differs from what it was in its config and its shared devices only, and
\* every device that was in the list and still is differs in its config and
\* its folders only: status, stats, scan progress, connection, rates and
\* completion map are the ones stored before.
C30_MergeKeepsOtherFields ==
  IsConfigMerge(call) =>
    /\ \A i \in DOMAIN folders : \A k \in DOMAIN call.before.folders :
         call.before.folders[k].Config.ID = folders[i].Config.ID =>
           [folders[i] EXCEPT !.Config = call.before.folders[k].Config,
                              !.SharedDevices = call.before.folders[k].SharedDevices]
             = call.before.folders[k]
    /\ \A i \in DOMAIN devices : \A k \in DOMAIN call.before.devices :
         call.before.devices[k].Config.DeviceID = devices[i].Config.DeviceID =>
           [devices[i] EXCEPT !.Config = call.before.devices[k].Config,
                              !.Folders = call.before.devices[k].Folders]
             = call.before.devices[k]

\* a merge changed the config of a folder and kept a device, the other
\* fields of both had all been written, and those fields are still stored
C30_Witness ==
  /\ IsConfigMerge(call)
  /\ \E i \in DOMAIN folders : \E k \in DOMAIN call.before.folders :
        /\ call.before.folders[k].Config.ID = folders[i].Config.ID
        /\ call.before.folders[k].Config # folders[i].Config
        /\ folders[i].Status = SummaryScanning
        /\ folders[i].ExtraStats # EmptyFolderStats
        /\ folders[i].ScanProgress # EmptyScanProgress
  /\ \E i \in DOMAIN devices : \E k \in DOMAIN call.before.devices :
        /\ call.before.devices[k].Config.DeviceID = devices[i].Config.DeviceID
        /\ devices[i].ExtraStats # EmptyDeviceStats
        /\ devices[i].Connection[1]
        /\ devices[i].InGoingBytesPerSecond > 0
        /\ devices[i].OutGoingBytesPerSecond > 0
        /\ devices[i].StatusCompletion # EmptyMap

\* the sample of the last successful connections response handled: the one
\* whose received total is stored, none before the first
LastHandledConnections ==
  IF thisDeviceStatus.InBytesTotal = 0 THEN NoConnections
  ELSE ConnectionsAt(thisDeviceStatus.InBytesTotal \div 10)

\* C31: when a successful connections response is handled, the rates of
\* the system and of every device are computed from the sample of the last
\* successful response handled before it, total against total and device
\* against the same device; with no such response every rate is 0.
C31_RatesFromPreviousSample ==
  [][\A m \in ConnMsgs :
       (Consumed(m) /\ m.err = NoErr) =>
         LET L     == LastHandledConnections
             inOut == calcInOutBytes(L.Total, m.connections.Total)
         IN /\ thisDeviceStatus'.InGoingBytesPerSecond = inOut[1]
            /\ thisDeviceStatus'.OutGoingBytesPerSecond = inOut[2]
            /\ \A i \in DOMAIN devices' :
                  LET id == devices'[i].Config.DeviceID
                      io == calcInOutBytes(
                              MapGet(L.Connections, id, EmptyConnection),
                              MapGet(m.connections.Connections, id, EmptyConnection))
                  IN /\ devices'[i].InGoingBytesPerSecond = io[1]
                     /\ devices'[i].OutGoingBytesPerSecond = io[2]
                     /\ L = NoConnections =>
                          /\ devices'[i].InGoingBytesPerSecond = 0
                          /\ devices'[i].OutGoingBytesPerSecond = 0
            /\ L = NoConnections =>
                 /\ thisDeviceStatus'.InGoingBytesPerSecond = 0
                 /\ thisDeviceStatus'.OutGoingBytesPerSecond = 0]_vars

\* a second response has been handled: the rates of the system and of a
\* device are those between the first sample and the second
C31_Witness ==
  /\ thisDeviceStatus.InBytesTotal = ConnectionsAt(2).Total.InBytesTotal
  /\ thisDeviceStatus.InGoingBytesPerSecond = 1
  /\ thisDeviceStatus.OutGoingBytesPerSecond = 2
  /\ \E i \in DOMAIN devices :
        devices[i].InGoingBytesPerSecond = 1 /\ devices[i].OutGoingBytesPerSecond = 2

\* C36: after a successful connections response is handled the stored
\* received total and the stored sent total are the totals of that response.
C36_TotalsOfTheResponse ==
  [][\A m \in ConnMsgs :
       (Consumed(m) /\ m.err = NoErr) =>
          /\ thisDeviceStatus'.InBytesTotal = m.connections.Total.InBytesTotal
          /\ thisDeviceStatus'.OutBytesTotal = m.connections.Total.OutBytesTotal]_vars

\* C39: the rate between two samples taken one after the other is never
\* negative, also when the later sample has the lower counter.
C39_RateNotNegative ==
  (call.fn = "byteThroughputInSeconds" /\ call.after.at >= call.before.at)
    => call.ret >= 0

\* the polls outstanding: issued (running or delayed) or answered and not
\* yet handled
PollsOutstanding ==
  BagCardinality([c \in PollCmds |-> cmds[c]])
    + BagCardinality([m \in EventMsgs |-> msgs[m]])

\* C33: at most one event poll is outstanding at any time, and handling a
\* poll response issues exactly one follow-up poll, at once or delayed.
C33_OnePollOutstanding ==
  /\ [](PollsOutstanding <= 1)
  /\ [][\A m \in EventMsgs :
          Consumed(m) =>
             /\ PollCmds = {}
             /\ BagCardinality([c \in PollCmdsOf(cmds') |-> cmds'[c]]) = 1]_vars

\* batches have been applied and a failed poll has been answered by a
\* delayed one: that poll is the only one outstanding
C33_Witness ==
  /\ Len(applied) > 0
  /\ \E c \in PollCmds : c.wait > 0
  /\ PollsOutstanding = 1

\* the call applied a delta that writes a field of a folder or of a device:
\* status, stats, scan progress, completion
FieldVariants ==
  {"FolderSummaryEventData", "FolderScanProgressEventData", "StateChangedEventData",
   "FolderCompletionEventData"}
IsFieldDelta(c) ==
  /\ c.fn = "apply"
  /\ \/ c.arg.kind \in {"folderStatus", "completion", "folderStats", "deviceStats"}
     \/ c.arg.kind = "event" /\ c.arg.event.Data.variant \in FieldVariants
\* the folder IDs and the device IDs the delta names
FoldersNamed(c) ==
  CASE c.arg.kind = "folderStatus" -> {c.arg.id}
    [] c.arg.kind = "completion"   -> {c.arg.folderID}
    [] c.arg.kind = "folderStats"  -> DOMAIN c.arg.folderStats
    [] c.arg.kind = "event"        -> {c.arg.event.Data.val.Folder}
    [] OTHER                       -> {}
DevicesNamed(c) ==
  CASE c.arg.kind = "completion"  -> {c.arg.deviceID}
    [] c.arg.kind = "deviceStats" -> DOMAIN c.arg.deviceStats
    [] c.arg.kind = "event" /\ c.arg.event.Data.variant = "FolderCompletionEventData"
                                  -> {c.arg.event.Data.val.Device}
    [] OTHER                      -> {}
NamesUnknownID(c) ==
  \/ \E F \in FoldersNamed(c) : F \notin FolderIDs(c.before.folders)
  \/ \E D \in DevicesNamed(c) : D \notin DeviceIDs(c.before.devices)

\* C34: a status, stats, scan-progress or completion delta leaves the folder
\* IDs and the device IDs as they were, and leaves the whole projection as
\* it was when it names a folder or a device that is not in the projection.
C34_FieldDeltasCreateNothing ==
  IsFieldDelta(call) =>
    /\ FolderIDs(folders) = FolderIDs(call.before.folders)
    /\ DeviceIDs(devices) = DeviceIDs(call.before.devices)
    /\ NamesUnknownID(call) => Projection(Store) = Projection(call.before)

\* the IDs of the folders shared with a device of the list
SharedFolderIDs(device) == {device.Folders[j][1] : j \in DOMAIN device.Folders}

\* C35: the completion map of every device has entries for folders shared
\* with the device only, so the aggregated completion of the device is the
\* one of its shared folders.
C35_CompletionOfSharedFoldersOnly ==
  \A i \in DOMAIN devices :
     LET sc     == devices[i].StatusCompletion
         shared == SharedFolderIDs(devices[i])
     IN /\ DOMAIN sc \subseteq shared
        /\ groupCompletion(sc) = groupCompletion([f \in DOMAIN sc \cap shared |-> sc[f]])

\* ------------------------ the clicks of the user -----------------------
PauseCmds == {c \in BagToSet(cmds) : c.cmd = "updateFolderPause"}
PauseIssued == \E c \in BagToSet(cmds') : c.cmd = "updateFolderPause" /\ Issued(c)
IsPauseEnded(m) ==
  m.type = "UserPostPutEndedMsg" /\ m.action # << >> /\ m.action[1] = "updateFolderPause: "

\* C38: whenever an updateFolderPause command the user issued has not
\* completed, ongoingUserAction is true
C38_FlagWhilePauseInFlight == PauseCmds # {} => ongoingUserAction

\* the step handles a click on dismiss, ignore or add of pending device d,
\* or the save of the modal that adds d
ActsOnPending(d) ==
  \/ Issued(deletePendingDevice(d))
  \/ Issued(putConfigIgnoring(putConfig, d))
  \/ ~addDeviceModal.Show /\ addDeviceModal' = [Show |-> TRUE, deviceID |-> d]
  \/ addDeviceModal = [Show |-> TRUE, deviceID |-> d]
       /\ \E c \in BagToSet(cmds') : c.cmd = "PostDeviceConfig" /\ c.device = d /\ Issued(c)

\* C32: the step that handles a dismiss, ignore or add action for pending
\* device d leaves d out of the pending devices
C32_ActionRemovesPending ==
  [][\A d \in DOMAIN pendingDevices : ActsOnPending(d) => d \notin DOMAIN pendingDevices']_vars

\* C37: an error recorded in the model is left as it is by every step
\* that handles a successful fetch result or an event batch, and it is
\* reset to no error only by the step that handles the completion message
\* of an updateFolderPause command
C37_ErrResetOnlyByPauseEnded ==
  [][/\ (err # NoErr /\ err' = NoErr) =>
          \E m \in BagToSet(msgs) : Consumed(m) /\ IsPauseEnded(m) /\ m.err = NoErr
     /\ \A m \in BagToSet(msgs) :
          (Consumed(m) /\ ~panicked' /\ m.type \notin {"UserPostPutEndedMsg", "errMsg"}
             /\ m.err = NoErr) => err' = err]_vars

\* a poll of the event log failed and recorded its error (its retry has
\* still the whole delay to wait), and the error is gone
C37_Witness ==
  /\ \E c \in BagToSet(cmds) : c.cmd = "fetchEvents" /\ c.wait = RETRY_DELAY
  /\ folders # << >>
  /\ err = NoErr
  /\ ~ongoingUserAction
====
